---- MODULE Spec2Model ----
(***************************************************************************)
(* A model of the Buttplug server core: the Lovehoney Desire protocol      *)
(* handler with its commanded-state cache and the device's bus task, the   *)
(* device manager's scanning coordination with the device manager event    *)
(* loop, and the routing of client messages.                               *)
(***************************************************************************)
EXTENDS Integers, Sequences, FiniteSets, TLC

(***************************************************************************)
(* Bounds of the model.                                                    *)
(***************************************************************************)
\* Device commands handled in one behaviour (each by its own handler future).
MaxCmds == 2
\* Comm managers that can be registered with the device manager.
NumMgrs == 2
\* Client messages given to DeviceManager.parse_message in one behaviour.
MaxReqs == 2
\* Devices found on the buses in one behaviour.
MaxDevices == 2
\* Calls of add_comm_manager in one behaviour.
MaxAdds == 4
\* Expiries of the ping timer in one behaviour.
MaxPingTimeouts == 1
\* Threads that call add_comm_manager at the same time.
MaxCallers == 2
\* Operations called on one BtlePlugDeviceImpl in one behaviour.
MaxImplCalls == 2
\* Calls of try_create_device_impl and get_specifier on one BtlePlugDeviceImplCreator.
MaxCreates == 3

(***************************************************************************)
(* Program constants.                                                      *)
(***************************************************************************)
\* Option::None in a diff vector, and an unset entry of the commanded-state cache.
None == -1
\* Vibration motors of the Lovehoney Desire.
FeatureCount == 2
\* Step count of each vibration feature of the Lovehoney Desire.
StepCount == 127
\* First byte of every Lovehoney Desire frame (0xF3).
FrameHeader == 243
\* The id of messages::Ok::default().
DefaultId == 1
\* BUTTPLUG_SERVER_EVENT_ID
BUTTPLUG_SERVER_EVENT_ID == 0

Motors == 0 .. (FeatureCount - 1)

\* Command speeds are counted in tenths: 0 is 0.0, 5 is 0.5, 10 is 1.0.

(***************************************************************************)
(* Messages.  A VibrateCmd carries a sequence of subcommands, each a       *)
(* feature index and a speed.                                              *)
(***************************************************************************)
VibrateSubcommand(i, s) == [index |-> i, speed |-> s]

\* The VibrateCmds a client sends to the device in this model: one subcommand
\* for either motor (speed 0.0 or 0.5), or one for each motor (equal speeds,
\* or different ones).
VibrateMsgs ==
  { <<VibrateSubcommand(m, s)>> : m \in Motors, s \in {0, 5} }
    \cup { <<VibrateSubcommand(0, s0), VibrateSubcommand(1, 5)>> : s0 \in {0, 5} }

\* get_stop_commands(): one VibrateCmd that sets every vibration feature to 0.0.
StopVibrateMsg == [m \in 1 .. FeatureCount |-> VibrateSubcommand(m - 1, 0)]

(***************************************************************************)
(* Generic command manager.                                                *)
(***************************************************************************)
\* A slip of the quantization: the product is rounded to the nearest integer,
\* halves upwards, so 0.5 * 127 gives 64 and 0.1 * 127 gives 13.
QuantizeNearest(s) == (2 * s * StepCount + 10) \div 20

\* Quantization of a speed (in tenths) to the feature's steps: the product is
\* cast to an integer, so 0.5 * 127 gives 63 (0x3f) and 0.1 * 127 gives 12 (0x0c).
Quantize(s) == (s * StepCount) \div 10

\* A slip of the validation: sub-indices are not compared with each other.
ValidVibrateNoDuplicateCheck(msg) ==
  \A k \in 1 .. Len(msg) : msg[k].index \in Motors /\ msg[k].speed >= 0 /\ msg[k].speed <= 10

\* Step 1 of update_vibration: sub-indices in range, speeds in [0.0, 1.0], no
\* sub-index addressed twice.
ValidVibrate(msg) ==
  /\ \A k \in 1 .. Len(msg) : msg[k].index \in Motors /\ msg[k].speed >= 0 /\ msg[k].speed <= 10
  /\ \A j, k \in 1 .. Len(msg) : j # k => msg[j].index # msg[k].index

\* The quantized value a message commands for motor m, None when m is not addressed.
Commanded(msg, m) ==
  IF \E k \in 1 .. Len(msg) : msg[k].index = m
  THEN Quantize(msg[CHOOSE k \in 1 .. Len(msg) : msg[k].index = m].speed)
  ELSE None

\* A slip of the diff: one entry for each subcommand of the message instead of
\* one for each feature.
DiffOfSubcommands(vibs, msg) ==
  [k \in 1 .. Len(msg) |->
     IF Quantize(msg[k].speed) # vibs[msg[k].index + 1] THEN Quantize(msg[k].speed) ELSE None]

\* Step 3: the diff against the stored vector: Some(quantized) where the value
\* changes, None where it does not or where the motor is not addressed.
DiffVector(vibs, msg) ==
  [p \in 1 .. Len(vibs) |->
     IF Commanded(msg, p - 1) # None /\ Commanded(msg, p - 1) # vibs[p]
     THEN Commanded(msg, p - 1) ELSE None]

\* Step 4: the stored vector after the command.
NewVibrations(vibs, msg) ==
  [p \in 1 .. Len(vibs) |->
     IF Commanded(msg, p - 1) # None THEN Commanded(msg, p - 1) ELSE vibs[p]]

\* update_vibration(msg, sent_all_once): the result and the stored vector after it.
update_vibration(vibs, msg, sent_all_once) ==
  IF ~ValidVibrate(msg)
  THEN [kind |-> "Err", cmds |-> <<>>, vibrations |-> vibs]
  ELSE IF sent_all_once /\ \A p \in 1 .. Len(vibs) : DiffVector(vibs, msg)[p] = None
  THEN [kind |-> "None", cmds |-> <<>>, vibrations |-> NewVibrations(vibs, msg)]
  ELSE [kind |-> "Some", cmds |-> DiffVector(vibs, msg), vibrations |-> NewVibrations(vibs, msg)]

(***************************************************************************)
(* Lovehoney Desire protocol handler.                                      *)
(***************************************************************************)
\* `speed as u8`
AsU8(v) == v % 256

\* DeviceWriteCmd::new(Endpoint::Tx, data, false)
DeviceWriteCmd(data) == [endpoint |-> "Tx", data |-> data, write_with_response |-> FALSE]

\* The else branch of handle_vibrate_cmd: one "set motor i" frame for each
\* Some entry from position i on, in ascending order.
RECURSIVE SeparateWrites(_, _)
SeparateWrites(cmds, i) ==
  IF i > Len(cmds) THEN <<>>
  ELSE (IF cmds[i] # None
        THEN <<DeviceWriteCmd(<<FrameHeader, i, AsU8(cmds[i])>>)>>
        ELSE <<>>) \o SeparateWrites(cmds, i + 1)

\* A slip of the else branch: a frame for every entry, None written as 0.
RECURSIVE SeparateWritesAll(_, _)
SeparateWritesAll(cmds, i) ==
  IF i > Len(cmds) THEN <<>>
  ELSE <<DeviceWriteCmd(<<FrameHeader, i, AsU8(IF cmds[i] # None THEN cmds[i] ELSE 0)>>)>>
         \o SeparateWritesAll(cmds, i + 1)

\* A slip of handle_vibrate_cmd: None entries are written too.
VibrateWritesAll(cmds) == SeparateWritesAll(cmds, 1)

\* A slip of handle_vibrate_cmd: the "set both" frame whenever the first entry
\* is Some, without comparing the entries.
VibrateWritesBoth(cmds) ==
  IF cmds[1] # None
  THEN <<DeviceWriteCmd(<<FrameHeader, 0, AsU8(cmds[1])>>)>>
  ELSE SeparateWrites(cmds, 1)

\* A slip of handle_vibrate_cmd: the "set both" frame is never used.
VibrateWritesSeparate(cmds) == SeparateWrites(cmds, 1)

\* The writes handle_vibrate_cmd issues for the diff vector it got back.
VibrateWrites(cmds) ==
  IF cmds[1] # None /\ \A w \in 1 .. (Len(cmds) - 1) : cmds[w] = cmds[w + 1]
  THEN <<DeviceWriteCmd(<<FrameHeader, 0, AsU8(cmds[1])>>)>>
  ELSE SeparateWrites(cmds, 1)

(***************************************************************************)
(* State.                                                                  *)
(***************************************************************************)
VARIABLES
  vibrations,     \* GenericCommandManager: the commanded-state vector (vibrate class)
  manager_lock,   \* the manager's mutex: 0 when free, else the handler holding it
  handler,        \* the handler future of each device command
  thread_sender,  \* the device's bounded command channel: (command, response slot) pairs
  slot,           \* the response slot of each handler's pending write
  bus,            \* the writes performed on the bus, in order, each with its handler
  hardware,       \* the value last written to each motor
  last_update,    \* the handler whose update_vibration ran last, 0 before the first
  ncmds           \* device commands started so far

devvars == <<vibrations, manager_lock, handler, thread_sender, slot, bus, hardware, last_update, ncmds>>

VARIABLES
  comm_managers,     \* DeviceManager: the names of the registered comm managers
  devices,           \* DeviceManager: the indices of the devices map
  scanning_status,   \* each comm manager's scanning status flag
  finish_owed,       \* ScanningFinished events a manager has still to send
  spawned,           \* managers whose DeviceManagerAdded send task has not run yet
  request,           \* the future of each client message
  device_event_sender,  \* the channel into the device manager event loop
  scanning_in_progress, \* event loop: a ScanningStarted was seen and no finish emitted since
  comm_manager_scanning_statuses,  \* event loop: the status flags it was given
  finished_emitted,  \* ScanningFinished messages sent to the client
  early_finish,      \* some ScanningFinished went to the client while a manager scanned
  rounds,            \* start_scanning calls that passed their checks
  nreqs              \* client messages received so far

scanvars ==
  <<comm_managers, devices, scanning_status, finish_owed, spawned, request, device_event_sender,
    scanning_in_progress, comm_manager_scanning_statuses, finished_emitted, early_finish,
    rounds, nreqs>>

VARIABLES
  device_index_generator,  \* event loop: the counter of device indices
  allocated,         \* the device indices allocated so far, in order
  delivered,         \* the messages given to each device's parse_message, each with its sender
  client_events,     \* the events the event loop has sent to the client, in order
  event_loop,        \* the step the event loop is at inside a device event's handler
  pinged_out,        \* the ping timer has expired and no handshake has followed
  add_log,           \* the calls of add_comm_manager so far: name, result, map before and after
  dma_sent,          \* DeviceManagerAdded events sent for each comm manager
  conversion         \* the last message conversion or comparison and its result

srvvars ==
  <<device_index_generator, allocated, delivered, client_events, event_loop, pinged_out,
    add_log, dma_sent, conversion>>

VARIABLES
  channel_closed,    \* the device's command channel is closed: its event loop has shut down
  add_call           \* the add_comm_manager calls that run concurrently, each with its position

VARIABLES
  impl_call,         \* BtlePlugDeviceImpl: the future of each operation called on it
  device_receiver,   \* the (command, waker) pairs in the bounded channel, oldest first
  waker,             \* the shared state of each operation's DeviceReturnFuture
  bus_ops,           \* the bus operations the event loop has performed, in order
  enqueued,          \* the operations whose pair went into the channel, in order
  fulfilled          \* how many times each operation's response slot was given a reply

implvars == <<impl_call, device_receiver, waker, bus_ops, enqueued, fulfilled>>

VARIABLES
  device,            \* BtlePlugDeviceImplCreator: the peripheral it holds, "Some" or "None"
  create_call,       \* the call of try_create_device_impl that is under way
  create_log,        \* the calls on the creator that have ended, in order
  event_loops,       \* the event loops spawned by the creator
  connects           \* the Connect commands sent by the creator

creatorvars == <<device, create_call, create_log, event_loops, connects>>

callvars == <<channel_closed, add_call, implvars, creatorvars>>

vars == <<devvars, scanvars, srvvars, callvars>>

Handlers == 1 .. MaxCmds

IdleHandler ==
  [pc |-> "idle", kind |-> "none", msg |-> <<>>, before |-> <<>>, prev |-> 0,
   cmds |-> <<>>, fut_vec |-> <<>>, written |-> <<>>, result |-> "none"]

DevInit ==
  /\ vibrations = [p \in 1 .. FeatureCount |-> None]
  /\ manager_lock = 0
  /\ handler = [t \in Handlers |-> IdleHandler]
  /\ thread_sender = <<>>
  /\ slot = [t \in Handlers |-> "empty"]
  /\ bus = <<>>
  /\ hardware = [p \in 1 .. FeatureCount |-> None]
  /\ last_update = 0
  /\ ncmds = 0

(***************************************************************************)
(* Device commands.  ButtplugDevice::parse_message hands a VibrateCmd to   *)
(* handle_vibrate_cmd; a StopDeviceCmd runs the protocol's stop commands   *)
(* through the same handler.                                               *)
(***************************************************************************)
DeviceCommands ==
  { [kind |-> "VibrateCmd", msg |-> m] : m \in VibrateMsgs }
    \cup { [kind |-> "StopDeviceCmd", msg |-> StopVibrateMsg] }

\* The next device command arrives and its handler future is created.
DeviceParseMessage(t, c) ==
  /\ t = ncmds + 1
  /\ handler[t].pc = "idle"
  /\ ncmds' = t
  /\ handler' = [handler EXCEPT ![t] = [IdleHandler EXCEPT !.pc = "lock", !.kind = c.kind, !.msg = c.msg]]
  /\ UNCHANGED <<vibrations, manager_lock, thread_sender, slot, bus, hardware, last_update, scanvars, srvvars, callvars>>

\* manager.lock().await
AcquireLock(t) ==
  /\ handler[t].pc = "lock"
  /\ manager_lock = 0
  /\ manager_lock' = t
  /\ handler' = [handler EXCEPT ![t].pc = "update"]
  /\ UNCHANGED <<vibrations, thread_sender, slot, bus, hardware, last_update, ncmds, scanvars, srvvars, callvars>>

\* Where the handler goes once update_vibration has returned `res`.
AfterUpdate(h, res) ==
  IF res.kind = "Err"
  THEN [h EXCEPT !.pc = "done", !.result = "MessageError"]
  ELSE IF res.kind = "None" \/ VibrateWrites(res.cmds) = <<>>
  THEN [h EXCEPT !.pc = "done", !.result = "Ok", !.cmds = res.cmds]
  ELSE [h EXCEPT !.pc = "send", !.cmds = res.cmds, !.fut_vec = VibrateWrites(res.cmds)]

\* A slip of the handler: the guard is kept in a variable that lives as long
\* as the handler runs.
GuardKept(t) == t

\* The holder of the mutex after the statement of update_vibration: the guard
\* is a temporary of that statement and is dropped at its end.
GuardAfterUpdate(t) == 0

\* update_vibration(&message, false) under the lock; the guard is dropped at
\* the end of the statement.
UpdateVibration(t) ==
  /\ handler[t].pc = "update"
  /\ manager_lock = t
  /\ LET res == update_vibration(vibrations, handler[t].msg, FALSE)
     IN /\ vibrations' = res.vibrations
        /\ handler' = [handler EXCEPT ![t] =
                         AfterUpdate([handler[t] EXCEPT !.before = vibrations, !.prev = last_update], res)]
  /\ manager_lock' = GuardAfterUpdate(t)
  /\ last_update' = t
  /\ UNCHANGED <<thread_sender, slot, bus, hardware, ncmds, scanvars, srvvars, callvars>>

\* send_to_device_task: the next write future is awaited: its command and
\* response slot go into the device's channel.
SendWrite(t) ==
  /\ handler[t].pc = "send"
  /\ thread_sender' = Append(thread_sender, [from |-> t, cmd |-> Head(handler[t].fut_vec)])
  /\ slot' = [slot EXCEPT ![t] = "pending"]
  /\ handler' = [handler EXCEPT ![t].pc = "await",
                                ![t].written = Append(@, Head(handler[t].fut_vec)),
                                ![t].fut_vec = Tail(@)]
  /\ UNCHANGED <<vibrations, manager_lock, bus, hardware, last_update, ncmds, scanvars, srvvars, callvars>>

\* The motor values after a frame reaches the device: motor byte 0 sets both
\* motors, motor byte N sets motor N (1-based).
ApplyFrame(hw, data) ==
  [p \in 1 .. Len(hw) |-> IF data[2] = 0 \/ data[2] = p THEN data[3] ELSE hw[p]]

\* The device event loop takes the oldest command and performs the bus write,
\* then fulfils the slot.
DeviceLoopWrite ==
  /\ thread_sender # <<>>
  /\ LET c == Head(thread_sender)
     IN /\ bus' = Append(bus, c)
        /\ hardware' = ApplyFrame(hardware, c.cmd.data)
        /\ slot' = [slot EXCEPT ![c.from] = "Ok"]
  /\ thread_sender' = Tail(thread_sender)
  /\ UNCHANGED <<vibrations, manager_lock, handler, last_update, ncmds, scanvars, srvvars, callvars>>

\* The bus write fails: nothing reaches the device and the slot gets the error.
DeviceLoopError ==
  /\ thread_sender # <<>>
  /\ slot' = [slot EXCEPT ![Head(thread_sender).from] = "Error"]
  /\ thread_sender' = Tail(thread_sender)
  /\ UNCHANGED <<vibrations, manager_lock, handler, bus, hardware, last_update, ncmds, scanvars, srvvars, callvars>>

\* fut.await? : the write's result arrives; on an error the handler returns it
\* and its remaining write futures are dropped unsent.
WriteReturns(t) ==
  /\ handler[t].pc = "await"
  /\ slot[t] \in {"Ok", "Error"}
  /\ slot' = [slot EXCEPT ![t] = "empty"]
  /\ handler' = [handler EXCEPT ![t] =
       IF slot[t] = "Error"
       THEN [@ EXCEPT !.pc = "done", !.result = "DeviceCommunicationError", !.fut_vec = <<>>]
       ELSE IF @.fut_vec = <<>>
       THEN [@ EXCEPT !.pc = "done", !.result = "Ok"]
       ELSE [@ EXCEPT !.pc = "send"]]
  /\ UNCHANGED <<vibrations, manager_lock, thread_sender, bus, hardware, last_update, ncmds, scanvars, srvvars, callvars>>

DevNext ==
  \/ \E t \in Handlers, c \in DeviceCommands : DeviceParseMessage(t, c)
  \/ \E t \in Handlers : AcquireLock(t)
  \/ \E t \in Handlers : UpdateVibration(t)
  \/ \E t \in Handlers : SendWrite(t)
  \/ DeviceLoopWrite
  \/ DeviceLoopError
  \/ \E t \in Handlers : WriteReturns(t)


(***************************************************************************)
(* Properties of the protocol handler.                                     *)
(***************************************************************************)
\* The handler has got its diff vector: update_vibration has run and succeeded.
Updated(t) == handler[t].pc \in {"send", "await", "done"} /\ handler[t].result # "MessageError"

\* The motors (0-based) a frame sets.
FrameMotors(w) == IF w.data[2] = 0 THEN Motors ELSE {w.data[2] - 1}

\* The motors set by some frame of a sequence of writes.
MotorsWritten(ws) == UNION { FrameMotors(ws[k]) : k \in 1 .. Len(ws) }

\* The motor was addressed by the handler's message with a value other than
\* the one the cache held when update_vibration ran.
ChangedBy(t, m) ==
  /\ Commanded(handler[t].msg, m) # None
  /\ Commanded(handler[t].msg, m) # handler[t].before[m + 1]

\* C1: a VibrateCmd writes to a motor only if the motor's quantized commanded
\* value differs from the cached one (this for the writes it sends and for
\* those that reach the bus), each such write carries the commanded value, and
\* a VibrateCmd identical to the command that updated the cache just before
\* it sends no write and returns Ok.
C1_WriteOnlyIfChanged ==
  /\ \A t \in Handlers : handler[t].kind = "VibrateCmd" =>
       \A k \in 1 .. Len(handler[t].written) :
         /\ handler[t].written[k].endpoint = "Tx"
         /\ \A m \in FrameMotors(handler[t].written[k]) :
              ChangedBy(t, m) /\ handler[t].written[k].data[3] = Commanded(handler[t].msg, m)
  /\ \A b \in 1 .. Len(bus) : handler[bus[b].from].kind = "VibrateCmd" =>
       \A m \in FrameMotors(bus[b].cmd) : ChangedBy(bus[b].from, m)
  /\ \A t \in Handlers :
       ( /\ handler[t].kind = "VibrateCmd"
         /\ Updated(t)
         /\ handler[t].prev # 0
         /\ handler[handler[t].prev].kind = "VibrateCmd"
         /\ handler[handler[t].prev].msg = handler[t].msg )
       => handler[t].written = <<>> /\ handler[t].pc = "done" /\ handler[t].result = "Ok"

\* A VibrateCmd that wrote to the device was handled successfully, and the
\* identical VibrateCmd handled next has completed.
C1_Witness ==
  \E t, u \in Handlers :
    /\ handler[t].prev = u
    /\ handler[u].kind = "VibrateCmd" /\ handler[t].kind = "VibrateCmd"
    /\ handler[u].msg = handler[t].msg
    /\ handler[u].pc = "done" /\ handler[u].result = "Ok" /\ handler[u].written # <<>>
    /\ handler[t].pc = "done"

\* The writes the two-motor rule asks for: one [0xF3, 0, v] when both entries
\* are present and equal, else [0xF3, N, v] for each present entry, ascending.
C2_Frames(cmds) ==
  IF cmds[1] # None /\ cmds[2] # None /\ cmds[1] = cmds[2]
  THEN <<[endpoint |-> "Tx", data |-> <<243, 0, cmds[1]>>, write_with_response |-> FALSE]>>
  ELSE (IF cmds[1] # None
        THEN <<[endpoint |-> "Tx", data |-> <<243, 1, cmds[1]>>, write_with_response |-> FALSE]>>
        ELSE <<>>)
       \o (IF cmds[2] # None
           THEN <<[endpoint |-> "Tx", data |-> <<243, 2, cmds[2]>>, write_with_response |-> FALSE]>>
           ELSE <<>>)

IsPrefix(a, b) == Len(a) <= Len(b) /\ \A k \in 1 .. Len(a) : a[k] = b[k]

C3_StopWritesNonZeroMotors ==
  \A t \in Handlers : (handler[t].kind = "StopDeviceCmd" /\ Updated(t)) =>
    /\ MotorsWritten(handler[t].written \o handler[t].fut_vec)
         = { m \in Motors : handler[t].before[m + 1] # 0 }
    /\ \A k \in 1 .. Len(handler[t].written) : handler[t].written[k].data[3] = 0
    /\ handler[t].pc = "done" =>
         MotorsWritten(handler[t].written) = { m \in Motors : handler[t].before[m + 1] # 0 }
    /\ last_update = t => \A p \in 1 .. FeatureCount : vibrations[p] = 0

\* With motor 0 at 0 and motor 1 running, a StopDeviceCmd has sent only
\* [0xF3, 0x02, 0x00].
C3_Witness ==
  \E t \in Handlers :
    /\ handler[t].kind = "StopDeviceCmd" /\ handler[t].pc = "done"
    /\ handler[t].before = <<0, Quantize(5)>>
    /\ handler[t].written = <<DeviceWriteCmd(<<243, 2, 0>>)>>

\* C4 as stated: on the bus, the writes of one VibrateCmd are never separated
\* by a write of another VibrateCmd.
C4_NoInterleaving ==
  \A i, j, k \in 1 .. Len(bus) :
    ( /\ i < j /\ j < k
      /\ handler[bus[i].from].kind = "VibrateCmd"
      /\ handler[bus[j].from].kind = "VibrateCmd"
      /\ bus[i].from = bus[k].from )
    => bus[j].from = bus[i].from

\* No command is in flight: every handler that was started has returned Ok.
NoCommandInFlight ==
  \A t \in Handlers :
    handler[t].pc = "idle" \/ (handler[t].pc = "done" /\ handler[t].result = "Ok")

\* C5 as stated: with no command in flight, each motor holds the value the
\* commanded-state cache has for it.
C5_HardwareMatchesCache == NoCommandInFlight => hardware = vibrations

(***************************************************************************)
(* Message routing.                                                        *)
(***************************************************************************)
\* The variants of ButtplugClientMessage.
ButtplugClientMessage ==
  {"Ping", "RequestLog", "RequestServerInfo", "StartScanning", "StopScanning",
   "RequestDeviceList", "StopAllDevices", "VibrateCmd", "LinearCmd", "RotateCmd",
   "RawWriteCmd", "RawReadCmd", "StopDeviceCmd", "RawSubscribeCmd", "RawUnsubscribeCmd",
   "BatteryLevelCmd", "RSSILevelCmd", "SingleMotorVibrateCmd", "FleshlightLaunchFW12Cmd",
   "LovenseCmd", "KiirooCmd", "VorzeA10CycloneCmd"}

\* The variants of ButtplugDeviceManagerMessageUnion.
ButtplugDeviceManagerMessageUnion ==
  {"RequestDeviceList", "StopAllDevices", "StartScanning", "StopScanning"}

\* The device union with LovenseCmd added to it.
DeviceCommandUnionWithLovense ==
  {"FleshlightLaunchFW12Cmd", "SingleMotorVibrateCmd", "VorzeA10CycloneCmd", "KiirooCmd",
   "LovenseCmd", "VibrateCmd", "LinearCmd", "RotateCmd", "RawWriteCmd", "RawReadCmd",
   "StopDeviceCmd", "RawSubscribeCmd", "RawUnsubscribeCmd", "BatteryLevelCmd", "RSSILevelCmd"}

\* The variants of ButtplugDeviceCommandMessageUnion.
ButtplugDeviceCommandMessageUnion ==
  {"FleshlightLaunchFW12Cmd", "SingleMotorVibrateCmd", "VorzeA10CycloneCmd", "KiirooCmd",
   "VibrateCmd", "LinearCmd", "RotateCmd", "RawWriteCmd", "RawReadCmd", "StopDeviceCmd",
   "RawSubscribeCmd", "RawUnsubscribeCmd", "BatteryLevelCmd", "RSSILevelCmd"}

\* Union::try_from(msg): Ok when the message's variant is one of the union's.
TryFrom(union, v) == IF v \in union THEN "Ok" ELSE "Err"

\* DeviceManager::parse_message: the device union is tried first, then the
\* manager union.
parse_message(v) ==
  IF TryFrom(ButtplugDeviceCommandMessageUnion, v) = "Ok" THEN "device"
  ELSE IF TryFrom(ButtplugDeviceManagerMessageUnion, v) = "Ok" THEN "manager"
  ELSE "UnexpectedMessageType"

\* A slip of the lookup: any registered device is taken.
GetAnyDevice(devs, index) == IF devs # {} THEN CHOOSE d \in devs : TRUE ELSE None

\* self.devices.get(&device_msg.device_index()): the device under that key,
\* None when there is none.
GetDevice(devs, index) == IF index \in devs THEN index ELSE None

\* DeviceManager::parse_device_message: the device is looked up by index.
parse_device_message(devs, index) ==
  IF GetDevice(devs, index) # None THEN "Device" ELSE "DeviceNotAvailable"

(***************************************************************************)
(* Device manager: scanning.                                               *)
(***************************************************************************)
Mgrs == 1 .. NumMgrs
Reqs == 1 .. MaxReqs

\* The first check of start_scanning and stop_scanning, made when called.
NoManagers(mgrs) == mgrs = {}

\* A slip of start_scanning's loop: an error only when every manager scans.
AllScanning(mgrs, status) == \A m \in mgrs : status[m]

\* The loop of start_scanning: some manager's scanning status is true.
AnyScanning(mgrs, status) == \E m \in mgrs : status[m]

\* A slip of stop_scanning's loop: scanning_stopped is never left true.
NeverStopped(mgrs, status) == FALSE

\* The loop of stop_scanning: scanning_stopped stays true when no manager's
\* scanning status is true.
ScanningStopped(mgrs, status) == ~\E m \in mgrs : status[m]

\* The probe start_scanning sends to the event loop, in order.
ProbeEvents == <<"ScanningStarted", "ScanningFinished">>

IdleRequest ==
  [pc |-> "idle", variant |-> "none", route |-> "none", result |-> "none",
   regs |-> {}, seen |-> [m \in Mgrs |-> FALSE], invoked |-> [m \in Mgrs |-> 0],
   pending |-> {}, failed |-> {}, probes |-> <<>>,
   id |-> 0, index |-> None, devs |-> {}, target |-> None, list |-> {},
   dev_pending |-> {}, dev_failed |-> {}, pinged |-> FALSE, seen_events |-> 0]

ScanInit ==
  /\ comm_managers = {}
  /\ devices = {}
  /\ scanning_status = [m \in Mgrs |-> FALSE]
  /\ finish_owed = [m \in Mgrs |-> 0]
  /\ spawned = {}
  /\ request = [r \in Reqs |-> IdleRequest]
  /\ device_event_sender = <<>>
  /\ scanning_in_progress = FALSE
  /\ comm_manager_scanning_statuses = {}
  /\ finished_emitted = 0
  /\ early_finish = FALSE
  /\ rounds = 0
  /\ nreqs = 0

Devs == 0 .. (MaxDevices - 1)

IdleEventLoop == [pc |-> "idle", index |-> None]

NoConversion == [op |-> "none"]

SrvInit ==
  /\ device_index_generator = 0
  /\ allocated = <<>>
  /\ delivered = [d \in Devs |-> <<>>]
  /\ client_events = <<>>
  /\ event_loop = IdleEventLoop
  /\ pinged_out = FALSE
  /\ add_log = <<>>
  /\ dma_sent = [m \in Mgrs |-> 0]
  /\ conversion = NoConversion

\* The calls of add_comm_manager that run concurrently.
Callers == 1 .. MaxCallers

IdleAddCall == [pc |-> "idle", name |-> 0, result |-> "none", replaced |-> FALSE, task |-> "none"]

IdleCreate ==
  [pc |-> "idle", op |-> "try_create_device_impl", btle |-> FALSE, had_device |-> FALSE,
   spawned |-> FALSE, sent |-> FALSE, result |-> "none"]

ImplCalls == 1 .. MaxImplCalls

IdleImplCall == [pc |-> "idle", op |-> "none", result |-> "none"]

CallInit ==
  /\ channel_closed = FALSE
  /\ add_call = [c \in Callers |-> IdleAddCall]
  /\ impl_call = [c \in ImplCalls |-> IdleImplCall]
  /\ device_receiver = <<>>
  /\ waker = [c \in ImplCalls |-> "empty"]
  /\ bus_ops = <<>>
  /\ enqueued = <<>>
  /\ fulfilled = [c \in ImplCalls |-> 0]
  /\ device = "Some"
  /\ create_call = IdleCreate
  /\ create_log = <<>>
  /\ event_loops = 0
  /\ connects = 0

Init == DevInit /\ ScanInit /\ SrvInit /\ CallInit

DeviceCommunicationEvent(type, m) == [type |-> type, mgr |-> m]

\* A slip of add_comm_manager: the name is never found in the map.
NeverContains(mgrs, name) == FALSE

\* self.comm_managers.contains_key(mgr.name())
contains_key(mgrs, name) == name \in mgrs

\* add_comm_manager: with a registered name it returns the error; with a new
\* name it spawns the task that will send DeviceManagerAdded with the
\* manager's status flag, inserts the manager and returns Ok.
AddCommManager(m) ==
  /\ Len(add_log) < MaxAdds
  /\ IF contains_key(comm_managers, m)
     THEN /\ add_log' = Append(add_log, [name |-> m, result |-> "DeviceManagerTypeAlreadyAdded",
                                         before |-> comm_managers, spawned |-> FALSE])
          /\ UNCHANGED <<comm_managers, spawned>>
     ELSE /\ add_log' = Append(add_log, [name |-> m, result |-> "Ok",
                                         before |-> comm_managers, spawned |-> TRUE])
          /\ spawned' = spawned \cup {m}
          /\ comm_managers' = comm_managers \cup {m}
  /\ UNCHANGED <<devices, scanning_status, finish_owed, request, device_event_sender,
                 scanning_in_progress, comm_manager_scanning_statuses, finished_emitted,
                 early_finish, rounds, nreqs, devvars>>
  /\ UNCHANGED <<device_index_generator, allocated, delivered, client_events, event_loop,
                 pinged_out, dma_sent, conversion, callvars>>

\* The task spawned by add_comm_manager runs.
SendDeviceManagerAdded(m) ==
  /\ m \in spawned
  /\ spawned' = spawned \ {m}
  /\ device_event_sender' = Append(device_event_sender, DeviceCommunicationEvent("DeviceManagerAdded", m))
  /\ dma_sent' = [dma_sent EXCEPT ![m] = @ + 1]
  /\ UNCHANGED <<comm_managers, devices, scanning_status, finish_owed, request,
                 scanning_in_progress, comm_manager_scanning_statuses, finished_emitted,
                 early_finish, rounds, nreqs, devvars>>
  /\ UNCHANGED <<device_index_generator, allocated, delivered, client_events, event_loop,
                 pinged_out, add_log, conversion, callvars>>

\* start_scanning up to join_all: the two checks, then start_scanning() is
\* called on each manager.
StartScanning(q) ==
  IF NoManagers(comm_managers)
  THEN [q EXCEPT !.pc = "done", !.result = "NoDeviceCommManagers"]
  ELSE IF AnyScanning(comm_managers, scanning_status)
  THEN [q EXCEPT !.pc = "done", !.result = "DeviceScanningAlreadyStarted"]
  ELSE [q EXCEPT !.pc = "join", !.pending = comm_managers,
                 !.invoked = [m \in Mgrs |-> IF m \in comm_managers THEN 1 ELSE 0]]

\* stop_scanning up to join_all.
StopScanning(q) ==
  IF NoManagers(comm_managers)
  THEN [q EXCEPT !.pc = "done", !.result = "NoDeviceCommManagers"]
  ELSE IF ScanningStopped(comm_managers, scanning_status)
  THEN [q EXCEPT !.pc = "done", !.result = "DeviceScanningAlreadyStopped"]
  ELSE [q EXCEPT !.pc = "join", !.pending = comm_managers,
                 !.invoked = [m \in Mgrs |-> IF m \in comm_managers THEN 1 ELSE 0]]

\* A slip of stop_all_devices: only one device of the map is stopped.
OneDeviceOf(devs) == IF devs = {} THEN {} ELSE {CHOOSE d \in devs : TRUE}

\* device_map.iter(): the devices stop_all_devices sends a StopDeviceCmd to.
StopTargets(devs) == devs

\* stop_all_devices up to join_all: a StopDeviceCmd future for each device of
\* the map; with no device join_all is ready at once.
stop_all_devices(q) ==
  IF StopTargets(devices) = {}
  THEN [q EXCEPT !.pc = "done", !.result = "Ok"]
  ELSE [q EXCEPT !.pc = "join_stop", !.dev_pending = StopTargets(devices)]

\* A slip of RequestDeviceList: the list is left empty.
NoDeviceMessageInfo(devs) == {}

\* The DeviceMessageInfo entries of RequestDeviceList: one for each entry of
\* the map, under the entry's key.
DeviceMessageInfos(devs) == { d \in Devs : d \in devs }

\* parse_device_manager_message
parse_device_manager_message(q) ==
  CASE q.variant = "RequestDeviceList" ->
         [q EXCEPT !.pc = "done", !.result = "DeviceList", !.list = DeviceMessageInfos(devices)]
    [] q.variant = "StopAllDevices" -> stop_all_devices(q)
    [] q.variant = "StartScanning" -> StartScanning(q)
    [] q.variant = "StopScanning" -> StopScanning(q)

\* The message a device's parse_message is given, with the request it is from
\* (0: the event loop).
DeviceMessage(kind, from) == [kind |-> kind, from |-> from]

\* DeviceManager::parse_message for the next client message, with id i.
ParseMessage(r, v, index, i) ==
  /\ r = nreqs + 1
  /\ request[r].pc = "idle"
  /\ nreqs' = r
  /\ LET q == [IdleRequest EXCEPT !.variant = v, !.route = parse_message(v),
                                  !.regs = comm_managers, !.seen = scanning_status,
                                  !.id = i, !.devs = devices,
                                  !.seen_events = Len(client_events)]
     IN /\ request' = [request EXCEPT ![r] =
             CASE parse_message(v) = "device" ->
                    [q EXCEPT !.pc = "done", !.result = parse_device_message(devices, index),
                              !.index = index, !.target = GetDevice(devices, index)]
               [] parse_message(v) = "manager" -> parse_device_manager_message(q)
               [] OTHER -> [q EXCEPT !.pc = "done", !.result = "UnexpectedMessageType"]]
        /\ rounds' = IF request'[r].variant = "StartScanning" /\ request'[r].pc = "join"
                     THEN rounds + 1 ELSE rounds
        /\ delivered' =
             [d \in Devs |->
                IF parse_message(v) = "device" /\ GetDevice(devices, index) = d
                THEN Append(delivered[d], DeviceMessage(v, r))
                ELSE IF request'[r].pc = "join_stop" /\ d \in request'[r].dev_pending
                THEN Append(delivered[d], DeviceMessage("StopDeviceCmd", r))
                ELSE delivered[d]]
  /\ UNCHANGED <<comm_managers, devices, scanning_status, finish_owed, spawned, device_event_sender,
                 scanning_in_progress, comm_manager_scanning_statuses, finished_emitted,
                 early_finish, devvars>>
  /\ UNCHANGED <<device_index_generator, allocated, client_events, event_loop, pinged_out,
                 add_log, dma_sent, conversion, callvars>>

\* A manager's start_scanning future completes: the manager scans.
MgrStartOk(r, m) ==
  /\ request[r].pc = "join" /\ request[r].variant = "StartScanning"
  /\ m \in request[r].pending
  /\ request' = [request EXCEPT ![r].pending = @ \ {m}]
  /\ scanning_status' = [scanning_status EXCEPT ![m] = TRUE]
  /\ UNCHANGED <<comm_managers, devices, finish_owed, spawned, device_event_sender,
                 scanning_in_progress, comm_manager_scanning_statuses, finished_emitted,
                 early_finish, rounds, nreqs, devvars, srvvars, callvars>>

\* A manager's start_scanning future completes with an error.
MgrStartErr(r, m) ==
  /\ request[r].pc = "join" /\ request[r].variant = "StartScanning"
  /\ m \in request[r].pending
  /\ request' = [request EXCEPT ![r].pending = @ \ {m}, ![r].failed = @ \cup {m}]
  /\ UNCHANGED <<comm_managers, devices, scanning_status, finish_owed, spawned, device_event_sender,
                 scanning_in_progress, comm_manager_scanning_statuses, finished_emitted,
                 early_finish, rounds, nreqs, devvars, srvvars, callvars>>

\* A manager's stop_scanning future completes: a scanning manager stops and
\* will send ScanningFinished.
MgrStopReturns(r, m) ==
  /\ request[r].pc = "join" /\ request[r].variant = "StopScanning"
  /\ m \in request[r].pending
  /\ request' = [request EXCEPT ![r].pending = @ \ {m},
                                ![r].pc = IF request[r].pending = {m} THEN "done" ELSE @,
                                ![r].result = IF request[r].pending = {m} THEN "Ok" ELSE @]
  /\ scanning_status' = [scanning_status EXCEPT ![m] = FALSE]
  /\ finish_owed' = [finish_owed EXCEPT ![m] = IF scanning_status[m] THEN @ + 1 ELSE @]
  /\ UNCHANGED <<comm_managers, devices, spawned, device_event_sender,
                 scanning_in_progress, comm_manager_scanning_statuses, finished_emitted,
                 early_finish, rounds, nreqs, devvars, srvvars, callvars>>

\* A manager's scan ends by itself.
MgrScanEnds(m) ==
  /\ scanning_status[m]
  /\ scanning_status' = [scanning_status EXCEPT ![m] = FALSE]
  /\ finish_owed' = [finish_owed EXCEPT ![m] = @ + 1]
  /\ UNCHANGED <<comm_managers, devices, spawned, request, device_event_sender,
                 scanning_in_progress, comm_manager_scanning_statuses, finished_emitted,
                 early_finish, rounds, nreqs, devvars, srvvars, callvars>>

\* A manager that stopped scanning sends its ScanningFinished event.
MgrSendFinished(m) ==
  /\ finish_owed[m] > 0
  /\ finish_owed' = [finish_owed EXCEPT ![m] = @ - 1]
  /\ device_event_sender' = Append(device_event_sender, DeviceCommunicationEvent("ScanningFinished", 0))
  /\ UNCHANGED <<comm_managers, devices, scanning_status, spawned, request,
                 scanning_in_progress, comm_manager_scanning_statuses, finished_emitted,
                 early_finish, rounds, nreqs, devvars, srvvars, callvars>>

\* A slip of start_scanning: the probe is sent without awaiting join_all.
NotJoined(q) == TRUE

\* join_all has returned: every manager's start_scanning future has completed.
AllStarted(q) == q.pending = {}

\* start_scanning after join_all: the next event of the probe is sent; after
\* the last one the call returns Ok.
SendProbe(r) ==
  /\ request[r].pc = "join" /\ request[r].variant = "StartScanning"
  /\ AllStarted(request[r])
  /\ LET n == Len(request[r].probes) + 1
     IN /\ device_event_sender' = Append(device_event_sender, DeviceCommunicationEvent(ProbeEvents[n], 0))
        /\ request' = [request EXCEPT ![r].probes = Append(@, ProbeEvents[n]),
                                      ![r].pc = IF n = Len(ProbeEvents) THEN "done" ELSE @,
                                      ![r].result = IF n = Len(ProbeEvents) THEN "Ok" ELSE @]
  /\ UNCHANGED <<comm_managers, devices, scanning_status, finish_owed, spawned,
                 scanning_in_progress, comm_manager_scanning_statuses, finished_emitted,
                 early_finish, rounds, nreqs, devvars, srvvars, callvars>>

\* The device manager event loop handles the next event of its channel.
EventLoop ==
  /\ device_event_sender # <<>>
  /\ device_event_sender' = Tail(device_event_sender)
  /\ LET e == Head(device_event_sender)
         emit == /\ e.type = "ScanningFinished"
                 /\ scanning_in_progress
                 /\ ~\E m \in comm_manager_scanning_statuses : scanning_status[m]
     IN /\ scanning_in_progress' =
             IF e.type = "ScanningStarted" THEN TRUE
             ELSE IF emit THEN FALSE ELSE scanning_in_progress
        /\ comm_manager_scanning_statuses' =
             IF e.type = "DeviceManagerAdded"
             THEN comm_manager_scanning_statuses \cup {e.mgr}
             ELSE comm_manager_scanning_statuses
        /\ finished_emitted' = IF emit THEN finished_emitted + 1 ELSE finished_emitted
        /\ early_finish' = (early_finish \/ (emit /\ \E m \in comm_managers : scanning_status[m]))
  /\ UNCHANGED <<comm_managers, devices, scanning_status, finish_owed, spawned, request, rounds, nreqs, devvars, srvvars, callvars>>

ScanNext ==
  \/ \E m \in Mgrs \cap {Cardinality(comm_managers) + 1} : AddCommManager(m)
  \/ \E m \in Mgrs : SendDeviceManagerAdded(m)
  \/ \E r \in Reqs, v \in {"StartScanning", "StopScanning"} : ParseMessage(r, v, 1, 1)
  \/ \E r \in Reqs, m \in Mgrs : MgrStartOk(r, m)
  \/ \E r \in Reqs, m \in Mgrs : MgrStartErr(r, m)
  \/ \E r \in Reqs, m \in Mgrs : MgrStopReturns(r, m)
  \/ \E m \in Mgrs : MgrScanEnds(m)
  \/ \E m \in Mgrs : MgrSendFinished(m)
  \/ \E r \in Reqs : SendProbe(r)
  \/ EventLoop

\* The protocol handler and the device's bus task, the device manager idle.
SpecDevice == Init /\ [][DevNext]_vars

\* The device manager with its comm managers and event loop, no device connected.
SpecScan == Init /\ [][ScanNext]_vars

\* Client messages of every variant, with no comm manager and no device.
RouteNext == \E r \in Reqs, v \in ButtplugClientMessage : ParseMessage(r, v, 1, 1)

SpecRoute == Init /\ [][RouteNext]_vars

(***************************************************************************)
(* Registration of comm managers, with the spawned tasks and the event     *)
(* loop scheduled fairly.                                                  *)
(***************************************************************************)
AddNext ==
  \/ \E m \in Mgrs : AddCommManager(m)
  \/ \E m \in Mgrs : SendDeviceManagerAdded(m)
  \/ EventLoop

SpecAdd ==
  /\ Init
  /\ [][AddNext]_vars
  /\ WF_vars(\E m \in Mgrs : SendDeviceManagerAdded(m))
  /\ WF_vars(EventLoop)

(***************************************************************************)
(* Message unions of the wire versions, their conversions, and the order   *)
(* of the device message types.                                            *)
(***************************************************************************)
\* ButtplugMessageSpecVersion
ButtplugMessageSpecVersion == {0, 1, 2}

\* The variants of ButtplugServerMessage.
ButtplugServerMessage ==
  {"Ok", "Error", "Test", "Log", "ServerInfo", "DeviceList", "DeviceAdded", "DeviceRemoved",
   "ScanningFinished", "RawReading", "BatteryLevelReading", "RSSILevelReading"}

\* The variants of ButtplugSpecV2ServerMessage.
ButtplugSpecV2ServerMessage ==
  {"Ok", "Error", "ServerInfo", "DeviceList", "DeviceAdded", "DeviceRemoved",
   "ScanningFinished", "RawReading", "BatteryLevelReading", "RSSILevelReading"}

\* The variants of ButtplugSpecV1ServerMessage.
ButtplugSpecV1ServerMessage ==
  {"Ok", "Error", "Log", "ServerInfo", "DeviceList", "DeviceAdded", "DeviceRemoved",
   "ScanningFinished"}

\* The variants of ButtplugSpecV0ServerMessage.
ButtplugSpecV0ServerMessage ==
  {"Ok", "Error", "Log", "ServerInfo", "DeviceList", "DeviceAdded", "DeviceRemoved",
   "ScanningFinished"}

\* The server-message union of a wire version.
ServerMessageUnion(version) ==
  CASE version = 0 -> ButtplugSpecV0ServerMessage
    [] version = 1 -> ButtplugSpecV1ServerMessage
    [] version = 2 -> ButtplugSpecV2ServerMessage

ConvertedTo(variant) == [ok |-> TRUE, variant |-> variant, error |-> "none"]
ConversionError(kind) == [ok |-> FALSE, variant |-> "none", error |-> kind]

\* A slip of the V1 conversion: the arm for Log is missing.
TryFromV1WithoutLog(msg) ==
  CASE msg = "Ok" -> ConvertedTo("Ok")
    [] msg = "Error" -> ConvertedTo("Error")
    [] msg = "ServerInfo" -> ConvertedTo("ServerInfo")
    [] msg = "DeviceList" -> ConvertedTo("DeviceList")
    [] msg = "DeviceAdded" -> ConvertedTo("DeviceAdded")
    [] msg = "DeviceRemoved" -> ConvertedTo("DeviceRemoved")
    [] msg = "ScanningFinished" -> ConvertedTo("ScanningFinished")
    [] OTHER -> ConversionError("VersionError")

\* impl TryFrom<ButtplugServerMessage> for ButtplugSpecV1ServerMessage
TryFromV1ServerMessage(msg) ==
  CASE msg = "Ok" -> ConvertedTo("Ok")
    [] msg = "Error" -> ConvertedTo("Error")
    [] msg = "Log" -> ConvertedTo("Log")
    [] msg = "ServerInfo" -> ConvertedTo("ServerInfo")
    [] msg = "DeviceList" -> ConvertedTo("DeviceList")
    [] msg = "DeviceAdded" -> ConvertedTo("DeviceAdded")
    [] msg = "DeviceRemoved" -> ConvertedTo("DeviceRemoved")
    [] msg = "ScanningFinished" -> ConvertedTo("ScanningFinished")
    [] OTHER -> ConversionError("VersionError")

\* impl TryFrom<ButtplugServerMessage> for ButtplugSpecV0ServerMessage
TryFromV0ServerMessage(msg) ==
  CASE msg = "Ok" -> ConvertedTo("Ok")
    [] msg = "Error" -> ConvertedTo("Error")
    [] msg = "Log" -> ConvertedTo("Log")
    [] msg = "ServerInfo" -> ConvertedTo("ServerInfo")
    [] msg = "DeviceList" -> ConvertedTo("DeviceList")
    [] msg = "DeviceAdded" -> ConvertedTo("DeviceAdded")
    [] msg = "DeviceRemoved" -> ConvertedTo("DeviceRemoved")
    [] msg = "ScanningFinished" -> ConvertedTo("ScanningFinished")
    [] OTHER -> ConversionError("VersionError")

\* #[derive(TryFromButtplugServerMessage)] on ButtplugSpecV2ServerMessage: an
\* arm for each variant of the enum, an error for the rest.
TryFromV2ServerMessage(msg) ==
  IF msg \in ButtplugSpecV2ServerMessage THEN ConvertedTo(msg) ELSE ConversionError("VersionError")

\* Down-conversion of a canonical server message to a wire version.
TryFromServerMessage(version, msg) ==
  CASE version = 0 -> TryFromV0ServerMessage(msg)
    [] version = 1 -> TryFromV1ServerMessage(msg)
    [] version = 2 -> TryFromV2ServerMessage(msg)

\* The variants of ButtplugSpecV2ClientMessage.
ButtplugSpecV2ClientMessage ==
  {"RequestServerInfo", "Ping", "StartScanning", "StopScanning", "RequestDeviceList",
   "StopAllDevices", "VibrateCmd", "LinearCmd", "RotateCmd", "RawWriteCmd", "RawReadCmd",
   "StopDeviceCmd", "RawSubscribeCmd", "RawUnsubscribeCmd", "BatteryLevelCmd", "RSSILevelCmd"}

\* The variants of ButtplugSpecV1ClientMessage.
ButtplugSpecV1ClientMessage ==
  {"RequestServerInfo", "Ping", "StartScanning", "StopScanning", "RequestDeviceList",
   "StopAllDevices", "VibrateCmd", "LinearCmd", "RotateCmd", "StopDeviceCmd",
   "SingleMotorVibrateCmd", "FleshlightLaunchFW12Cmd", "LovenseCmd", "KiirooCmd",
   "VorzeA10CycloneCmd"}

\* The variants of ButtplugSpecV0ClientMessage.
ButtplugSpecV0ClientMessage ==
  {"RequestLog", "Ping", "RequestServerInfo", "StartScanning", "StopScanning",
   "RequestDeviceList", "StopAllDevices", "StopDeviceCmd", "SingleMotorVibrateCmd",
   "FleshlightLaunchFW12Cmd", "LovenseCmd", "KiirooCmd", "VorzeA10CycloneCmd"}

\* The client-message union of a wire version.
ClientMessageUnion(version) ==
  CASE version = 0 -> ButtplugSpecV0ClientMessage
    [] version = 1 -> ButtplugSpecV1ClientMessage
    [] version = 2 -> ButtplugSpecV2ClientMessage

\* A canonical enum that lacks RequestLog, which only V0 has.
CanonicalWithoutRequestLog == ButtplugClientMessage \ {"RequestLog"}

\* The variants a per-version client message can be converted into.
CanonicalClientMessage == ButtplugClientMessage

\* Up-conversion of a per-version client message: the canonical variant of
\* the same name.
IntoClientMessage(msg) ==
  IF msg \in CanonicalClientMessage THEN ConvertedTo(msg) ELSE ConversionError("NoCanonicalForm")

\* The variants of ButtplugDeviceMessageType, in the order of declaration.
ButtplugDeviceMessageType ==
  <<"VibrateCmd", "LinearCmd", "RotateCmd", "StopDeviceCmd", "RawWriteCmd",
    "RawReadCmd", "RawSubscribeCmd", "RawUnsubscribeCmd", "BatteryLevelCmd",
    "RSSILevelCmd", "SingleMotorVibrateCmd", "FleshlightLaunchFW12Cmd",
    "LovenseCmd", "KiirooCmd", "VorzeA10CycloneCmd">>

\* The variants of ButtplugCurrentSpecDeviceMessageType, in the order of declaration.
ButtplugCurrentSpecDeviceMessageType ==
  <<"VibrateCmd", "LinearCmd", "RotateCmd", "StopDeviceCmd", "RawWriteCmd",
    "RawReadCmd", "RawSubscribeCmd", "RawUnsubscribeCmd", "BatteryLevelCmd",
    "RSSILevelCmd">>

\* The variants of a device message type enum.
Variants(enum) == { enum[k] : k \in 1 .. Len(enum) }

\* to_string() of a variant (derived Display): the bytes of the variant's name.
to_string(variant) ==
  CASE variant = "VibrateCmd" ->
       <<86, 105, 98, 114, 97, 116, 101, 67, 109, 100>>
    [] variant = "LinearCmd" ->
       <<76, 105, 110, 101, 97, 114, 67, 109, 100>>
    [] variant = "RotateCmd" ->
       <<82, 111, 116, 97, 116, 101, 67, 109, 100>>
    [] variant = "StopDeviceCmd" ->
       <<83, 116, 111, 112, 68, 101, 118, 105, 99, 101, 67, 109, 100>>
    [] variant = "RawWriteCmd" ->
       <<82, 97, 119, 87, 114, 105, 116, 101, 67, 109, 100>>
    [] variant = "RawReadCmd" ->
       <<82, 97, 119, 82, 101, 97, 100, 67, 109, 100>>
    [] variant = "RawSubscribeCmd" ->
       <<82, 97, 119, 83, 117, 98, 115, 99, 114, 105, 98, 101, 67, 109, 100>>
    [] variant = "RawUnsubscribeCmd" ->
       <<82, 97, 119, 85, 110, 115, 117, 98, 115, 99, 114, 105, 98, 101, 67, 109, 100>>
    [] variant = "BatteryLevelCmd" ->
       <<66, 97, 116, 116, 101, 114, 121, 76, 101, 118, 101, 108, 67, 109, 100>>
    [] variant = "RSSILevelCmd" ->
       <<82, 83, 83, 73, 76, 101, 118, 101, 108, 67, 109, 100>>
    [] variant = "SingleMotorVibrateCmd" ->
       <<83, 105, 110, 103, 108, 101, 77, 111, 116, 111, 114, 86, 105, 98, 114, 97, 116, 101, 67, 109, 100>>
    [] variant = "FleshlightLaunchFW12Cmd" ->
       <<70, 108, 101, 115, 104, 108, 105, 103, 104, 116, 76, 97, 117, 110, 99, 104, 70, 87, 49, 50, 67, 109, 100>>
    [] variant = "LovenseCmd" ->
       <<76, 111, 118, 101, 110, 115, 101, 67, 109, 100>>
    [] variant = "KiirooCmd" ->
       <<75, 105, 105, 114, 111, 111, 67, 109, 100>>
    [] variant = "VorzeA10CycloneCmd" ->
       <<86, 111, 114, 122, 101, 65, 49, 48, 67, 121, 99, 108, 111, 110, 101, 67, 109, 100>>

\* str::cmp: the bytes are compared from the first on; a proper prefix is less.
RECURSIVE StrCmp(_, _)
StrCmp(a, b) ==
  IF a = <<>> /\ b = <<>> THEN "Equal"
  ELSE IF a = <<>> THEN "Less"
  ELSE IF b = <<>> THEN "Greater"
  ELSE IF Head(a) < Head(b) THEN "Less"
  ELSE IF Head(a) > Head(b) THEN "Greater"
  ELSE StrCmp(Tail(a), Tail(b))

\* The position of a variant in its enum's declaration.
Discriminant(enum, variant) == CHOOSE k \in 1 .. Len(enum) : enum[k] = variant

\* The order a derived Ord would give: by position in the declaration.
DerivedCmp(a, b) ==
  LET i == Discriminant(ButtplugDeviceMessageType, a)
      j == Discriminant(ButtplugDeviceMessageType, b)
  IN IF i < j THEN "Less" ELSE IF i > j THEN "Greater" ELSE "Equal"

\* Ord::cmp of both enums: self.to_string().cmp(&other.to_string())
cmp(a, b) == StrCmp(to_string(a), to_string(b))

\* A down-conversion is made.
DownConvert(version, msg) ==
  /\ conversion = NoConversion
  /\ conversion' = [op |-> "TryFromServerMessage", version |-> version, msg |-> msg,
                    result |-> TryFromServerMessage(version, msg)]
  /\ UNCHANGED <<device_index_generator, allocated, delivered, client_events, event_loop,
                 pinged_out, add_log, dma_sent, devvars, scanvars, callvars>>

\* An up-conversion is made.
UpConvert(version, msg) ==
  /\ conversion = NoConversion
  /\ conversion' = [op |-> "IntoClientMessage", version |-> version, msg |-> msg,
                    result |-> IntoClientMessage(msg)]
  /\ UNCHANGED <<device_index_generator, allocated, delivered, client_events, event_loop,
                 pinged_out, add_log, dma_sent, devvars, scanvars, callvars>>

\* Three variants of one enum are compared with each other.
Compare(enum, a, b, c) ==
  /\ conversion = NoConversion
  /\ conversion' = [op |-> "cmp", enum |-> enum, a |-> a, b |-> b, c |-> c,
                    ab |-> cmp(a, b), ba |-> cmp(b, a), bc |-> cmp(b, c), ac |-> cmp(a, c)]
  /\ UNCHANGED <<device_index_generator, allocated, delivered, client_events, event_loop,
                 pinged_out, add_log, dma_sent, devvars, scanvars, callvars>>

\* The ids the validators are given: the system id, small request ids and
\* large ones.
MessageIds == {0, 1, 2, 255, 65536, 2147483647}

\* A slip of the validator: the id 1, the id of a default Ok, is refused too.
IsAboveDefaultId(id) == IF id <= DefaultId THEN "InvalidMessageContents" ELSE "Ok"

\* ButtplugMessageValidator::is_system_id
is_system_id(id) == IF id = 0 THEN "Ok" ELSE "InvalidMessageContents"

\* ButtplugMessageValidator::is_not_system_id
is_not_system_id(id) == IF id = 0 THEN "InvalidMessageContents" ELSE "Ok"

\* ButtplugMessage::is_server_event for a message with that id
is_server_event(id) == id = BUTTPLUG_SERVER_EVENT_ID

\* The validators are run on the id of a message.
ValidateId(id) ==
  /\ conversion = NoConversion
  /\ conversion' = [op |-> "validate", id |-> id, system |-> is_system_id(id),
                    not_system |-> is_not_system_id(id), server_event |-> is_server_event(id)]
  /\ UNCHANGED <<device_index_generator, allocated, delivered, client_events, event_loop,
                 pinged_out, add_log, dma_sent, devvars, scanvars, callvars>>

\* A slip of the conversion: the arm of RawReadCmd yields RawWriteCmd.
TryFromWithWrongArm(value) ==
  CASE value = "VibrateCmd" -> ConvertedTo("VibrateCmd")
    [] value = "LinearCmd" -> ConvertedTo("LinearCmd")
    [] value = "RotateCmd" -> ConvertedTo("RotateCmd")
    [] value = "StopDeviceCmd" -> ConvertedTo("StopDeviceCmd")
    [] value = "RawWriteCmd" -> ConvertedTo("RawWriteCmd")
    [] value = "RawReadCmd" -> ConvertedTo("RawWriteCmd")
    [] value = "RawSubscribeCmd" -> ConvertedTo("RawSubscribeCmd")
    [] value = "RawUnsubscribeCmd" -> ConvertedTo("RawUnsubscribeCmd")
    [] value = "BatteryLevelCmd" -> ConvertedTo("BatteryLevelCmd")
    [] value = "RSSILevelCmd" -> ConvertedTo("RSSILevelCmd")
    [] OTHER -> ConversionError("MessageConversionError")

\* impl TryFrom<ButtplugDeviceMessageType> for ButtplugCurrentSpecDeviceMessageType
TryFromDeviceMessageType(value) ==
  CASE value = "VibrateCmd" -> ConvertedTo("VibrateCmd")
    [] value = "LinearCmd" -> ConvertedTo("LinearCmd")
    [] value = "RotateCmd" -> ConvertedTo("RotateCmd")
    [] value = "StopDeviceCmd" -> ConvertedTo("StopDeviceCmd")
    [] value = "RawWriteCmd" -> ConvertedTo("RawWriteCmd")
    [] value = "RawReadCmd" -> ConvertedTo("RawReadCmd")
    [] value = "RawSubscribeCmd" -> ConvertedTo("RawSubscribeCmd")
    [] value = "RawUnsubscribeCmd" -> ConvertedTo("RawUnsubscribeCmd")
    [] value = "BatteryLevelCmd" -> ConvertedTo("BatteryLevelCmd")
    [] value = "RSSILevelCmd" -> ConvertedTo("RSSILevelCmd")
    [] OTHER -> ConversionError("MessageConversionError")

\* impl From<ButtplugCurrentSpecDeviceMessageType> for ButtplugDeviceMessageType
FromCurrentSpecDeviceMessageType(value) ==
  CASE value = "VibrateCmd" -> "VibrateCmd"
    [] value = "LinearCmd" -> "LinearCmd"
    [] value = "RotateCmd" -> "RotateCmd"
    [] value = "StopDeviceCmd" -> "StopDeviceCmd"
    [] value = "RawWriteCmd" -> "RawWriteCmd"
    [] value = "RawReadCmd" -> "RawReadCmd"
    [] value = "RawSubscribeCmd" -> "RawSubscribeCmd"
    [] value = "RawUnsubscribeCmd" -> "RawUnsubscribeCmd"
    [] value = "BatteryLevelCmd" -> "BatteryLevelCmd"
    [] value = "RSSILevelCmd" -> "RSSILevelCmd"

\* Two variants of ButtplugDeviceMessageType are converted to the current
\* spec's enum, and they and their images are compared.
ConvertDeviceMessageType(a, b) ==
  /\ conversion = NoConversion
  /\ LET ra == TryFromDeviceMessageType(a)
         rb == TryFromDeviceMessageType(b)
     IN conversion' = [op |-> "try_from", a |-> a, b |-> b, ra |-> ra, rb |-> rb,
                       ab |-> cmp(a, b),
                       images |-> IF ra.ok /\ rb.ok THEN cmp(ra.variant, rb.variant) ELSE "none"]
  /\ UNCHANGED <<device_index_generator, allocated, delivered, client_events, event_loop,
                 pinged_out, add_log, dma_sent, devvars, scanvars, callvars>>

\* A variant of ButtplugCurrentSpecDeviceMessageType is converted to
\* ButtplugDeviceMessageType and back.
RoundTripDeviceMessageType(c) ==
  /\ conversion = NoConversion
  /\ conversion' = [op |-> "from", c |-> c, into |-> FromCurrentSpecDeviceMessageType(c),
                    back |-> TryFromDeviceMessageType(FromCurrentSpecDeviceMessageType(c))]
  /\ UNCHANGED <<device_index_generator, allocated, delivered, client_events, event_loop,
                 pinged_out, add_log, dma_sent, devvars, scanvars, callvars>>

MessagesNext ==
  \/ \E id \in MessageIds : ValidateId(id)
  \/ \E version \in ButtplugMessageSpecVersion, msg \in ButtplugServerMessage :
       DownConvert(version, msg)
  \/ \E version \in ButtplugMessageSpecVersion :
       \E msg \in ClientMessageUnion(version) : UpConvert(version, msg)
  \/ \E enum \in {ButtplugDeviceMessageType, ButtplugCurrentSpecDeviceMessageType} :
       \E a, b, c \in Variants(enum) : Compare(enum, a, b, c)
  \/ \E a, b \in Variants(ButtplugDeviceMessageType) : ConvertDeviceMessageType(a, b)
  \/ \E c \in Variants(ButtplugCurrentSpecDeviceMessageType) : RoundTripDeviceMessageType(c)

\* Conversions and comparisons of messages, the device manager idle.
SpecMessages == Init /\ [][MessagesNext]_vars


(***************************************************************************)
(* Device registry: the event loop's handling of found and removed         *)
(* devices and of the ping timer, and the server in front of the device    *)
(* manager.                                                                *)
(***************************************************************************)
\* An event sent to the client by the event loop.
ServerEvent(type, index) == [type |-> type, index |-> index, id |-> BUTTPLUG_SERVER_EVENT_ID]

\* A slip of the index allocation: the lowest index not in the map is taken.
LowestFreeIndex(generator, devs) ==
  IF \E k \in 0 .. generator : k \notin devs
  THEN CHOOSE k \in 0 .. generator : k \notin devs /\ \A j \in 0 .. (k - 1) : j \in devs
  ELSE generator

\* The index the event loop gives to a new device: the value of its counter.
NextDeviceIndex(generator, devs) == generator

\* On DeviceFound, once the device is created: the next index is allocated
\* and the device is inserted into the map.
DeviceFound ==
  /\ event_loop.pc = "idle"
  /\ Len(allocated) < MaxDevices
  /\ LET index == NextDeviceIndex(device_index_generator, devices)
     IN /\ device_index_generator' = device_index_generator + 1
        /\ allocated' = Append(allocated, index)
        /\ devices' = devices \cup {index}
        /\ event_loop' = [pc |-> "added", index |-> index]
  /\ UNCHANGED <<comm_managers, scanning_status, finish_owed, spawned, request, device_event_sender,
                 scanning_in_progress, comm_manager_scanning_statuses, finished_emitted,
                 early_finish, rounds, nreqs, devvars>>
  /\ UNCHANGED <<delivered, client_events, pinged_out, add_log, dma_sent, conversion, callvars>>

\* On DeviceFound, last step: DeviceAdded is sent to the client.
EmitDeviceAdded ==
  /\ event_loop.pc = "added"
  /\ client_events' = Append(client_events, ServerEvent("DeviceAdded", event_loop.index))
  /\ event_loop' = IdleEventLoop
  /\ UNCHANGED <<device_index_generator, allocated, delivered, pinged_out, add_log, dma_sent,
                 conversion, devvars, scanvars, callvars>>

\* On DeviceRemoved: DeviceRemoved is sent to the client.
EmitDeviceRemoved(d) ==
  /\ event_loop.pc = "idle"
  /\ d \in devices
  /\ client_events' = Append(client_events, ServerEvent("DeviceRemoved", d))
  /\ event_loop' = [pc |-> "removing", index |-> d]
  /\ UNCHANGED <<device_index_generator, allocated, delivered, pinged_out, add_log, dma_sent,
                 conversion, devvars, scanvars, callvars>>

\* On DeviceRemoved, last step: the device is removed from the map.
RemoveDevice ==
  /\ event_loop.pc = "removing"
  /\ devices' = devices \ {event_loop.index}
  /\ event_loop' = IdleEventLoop
  /\ UNCHANGED <<comm_managers, scanning_status, finish_owed, spawned, request, device_event_sender,
                 scanning_in_progress, comm_manager_scanning_statuses, finished_emitted,
                 early_finish, rounds, nreqs, devvars>>
  /\ UNCHANGED <<device_index_generator, allocated, delivered, client_events, pinged_out,
                 add_log, dma_sent, conversion, callvars>>

\* PingTimeout errors sent to the client so far.
PingTimeouts ==
  Cardinality({ k \in 1 .. Len(client_events) : client_events[k].type = "PingTimeout" })

\* On ping timeout: every device of the map gets its stop command, an Error
\* with code PingTimeout goes to the client, and the server is pinged out.
PingTimeout ==
  /\ event_loop.pc = "idle"
  /\ ~pinged_out
  /\ PingTimeouts < MaxPingTimeouts
  /\ delivered' = [d \in Devs |->
                     IF d \in devices THEN Append(delivered[d], DeviceMessage("StopDeviceCmd", 0))
                     ELSE delivered[d]]
  /\ client_events' = Append(client_events, [type |-> "PingTimeout", index |-> None,
                                             id |-> BUTTPLUG_SERVER_EVENT_ID, devs |-> devices,
                                             nreqs |-> nreqs])
  /\ pinged_out' = TRUE
  /\ UNCHANGED <<device_index_generator, allocated, event_loop, add_log, dma_sent, conversion,
                 devvars, scanvars, callvars>>

\* A new handshake (RequestServerInfo) after a ping timeout.
Handshake ==
  /\ pinged_out
  /\ pinged_out' = FALSE
  /\ UNCHANGED <<device_index_generator, allocated, delivered, client_events, event_loop,
                 add_log, dma_sent, conversion, devvars, scanvars, callvars>>

\* A slip of the server: the ping state is not looked at.
NeverPingedOut(flag) == FALSE

\* The server's check before a message is given to the device manager.
PingedOut(flag) == flag

\* The server handles the next client message: after a ping timeout it
\* answers DeviceNotConnected; else the device manager parses the message.
ServerParseMessage(r, v, index, i) ==
  IF PingedOut(pinged_out)
  THEN /\ r = nreqs + 1
       /\ request[r].pc = "idle"
       /\ nreqs' = r
       /\ request' = [request EXCEPT ![r] =
            [IdleRequest EXCEPT !.pc = "done", !.variant = v, !.route = "server",
                                !.result = "DeviceNotConnected", !.id = i, !.pinged = TRUE,
                                !.index = IF parse_message(v) = "device" THEN index ELSE None,
                                !.devs = devices, !.seen_events = Len(client_events)]]
       /\ UNCHANGED <<comm_managers, devices, scanning_status, finish_owed, spawned,
                      device_event_sender, scanning_in_progress, comm_manager_scanning_statuses,
                      finished_emitted, early_finish, rounds, devvars, srvvars, callvars>>
  ELSE ParseMessage(r, v, index, i)

\* The StopDeviceCmd future of one device completes, with Ok or an error;
\* after the last one join_all returns and stop_all_devices returns Ok.
DeviceStopReturns(r, d, ok) ==
  /\ request[r].pc = "join_stop"
  /\ d \in request[r].dev_pending
  /\ request' = [request EXCEPT ![r].dev_pending = @ \ {d},
                                ![r].dev_failed = IF ok THEN @ ELSE @ \cup {d},
                                ![r].pc = IF request[r].dev_pending = {d} THEN "done" ELSE @,
                                ![r].result = IF request[r].dev_pending = {d} THEN "Ok" ELSE @]
  /\ UNCHANGED <<comm_managers, devices, scanning_status, finish_owed, spawned, device_event_sender,
                 scanning_in_progress, comm_manager_scanning_statuses, finished_emitted,
                 early_finish, rounds, nreqs, devvars, srvvars, callvars>>

\* The id of the message the device manager returns for a request: the
\* DeviceList gets the id of the request, an Ok is messages::Ok::default(),
\* and an error (ButtplugError) has no id.
DeviceManagerMessageId(q) ==
  IF q.result = "DeviceList" THEN q.id
  ELSE IF q.result \in {"Ok", "Device"} THEN DefaultId
  ELSE None

\* A slip of the server: the device manager's message is passed on as it is.
PassedOnId(q) == DeviceManagerMessageId(q)

\* The id of the server's response to a request: the server sets the id of
\* the request on the message or error it got.
ServerResponseId(q) == q.id

\* The client messages of this part of the model: their variants, device
\* indices and ids.
ClientIds == {1, 2}
ServerNext ==
  \/ DeviceFound
  \/ EmitDeviceAdded
  \/ \E d \in Devs : EmitDeviceRemoved(d)
  \/ RemoveDevice
  \/ PingTimeout
  \/ Handshake
  \/ \E r \in Reqs, i \in ClientIds :
       \/ \E v \in {"RequestDeviceList", "StopAllDevices", "StartScanning", "StopScanning"} :
            ServerParseMessage(r, v, None, i)
       \/ \E index \in 0 .. MaxDevices : ServerParseMessage(r, "VibrateCmd", index, i)
  \/ \E r \in Reqs, d \in Devs, ok \in BOOLEAN : DeviceStopReturns(r, d, ok)

\* The server with its device manager and event loop, devices coming and going.
SpecServer == Init /\ [][ServerNext]_vars


(***************************************************************************)
(* Device commands of any content: VibrateCmds that pass validation and    *)
(* VibrateCmds that do not, with speeds over the whole command range.      *)
(***************************************************************************)
\* Speeds in tenths from below 0.0 to above 1.0.
AnySpeeds == (0 - 1) .. 11

\* VibrateCmds with one subcommand for a sub-index up to the feature count
\* (which is out of range) at any speed, and with two subcommands, for equal
\* or different sub-indices, at 0.1 or 1.0.
AnyVibrateMsgs ==
  { <<VibrateSubcommand(i, s)>> : i \in 0 .. FeatureCount, s \in AnySpeeds }
    \cup { <<VibrateSubcommand(i, s), VibrateSubcommand(j, u)>> :
             i \in 0 .. FeatureCount, j \in 0 .. FeatureCount, s \in {1, 10}, u \in {1, 10} }

AnyDeviceCommands ==
  { [kind |-> "VibrateCmd", msg |-> m] : m \in AnyVibrateMsgs }
    \cup { [kind |-> "StopDeviceCmd", msg |-> StopVibrateMsg] }

VibrateNext ==
  \/ \E t \in Handlers, c \in AnyDeviceCommands : DeviceParseMessage(t, c)
  \/ \E t \in Handlers : AcquireLock(t)
  \/ \E t \in Handlers : UpdateVibration(t)
  \/ \E t \in Handlers : SendWrite(t)
  \/ DeviceLoopWrite
  \/ DeviceLoopError
  \/ \E t \in Handlers : WriteReturns(t)

\* The protocol handler with device commands of any content.
SpecVibrate == Init /\ [][VibrateNext]_vars


(***************************************************************************)
(* add_comm_manager called from several threads at once: its statements    *)
(* one by one.                                                             *)
(***************************************************************************)
\* A thread calls add_comm_manager: the builder makes the manager.
CallAddCommManager(c, m) ==
  /\ add_call[c].pc = "idle"
  /\ add_call' = [add_call EXCEPT ![c] = [IdleAddCall EXCEPT !.pc = "check", !.name = m]]
  /\ UNCHANGED <<channel_closed, implvars, creatorvars, devvars, scanvars, srvvars>>

\* if self.comm_managers.contains_key(mgr.name()) { return Err(..) }
AddCheck(c) ==
  /\ add_call[c].pc = "check"
  /\ add_call' = [add_call EXCEPT ![c] =
       IF contains_key(comm_managers, add_call[c].name)
       THEN [@ EXCEPT !.pc = "done", !.result = "DeviceManagerTypeAlreadyAdded"]
       ELSE [@ EXCEPT !.pc = "spawn"]]
  /\ UNCHANGED <<channel_closed, implvars, creatorvars, devvars, scanvars, srvvars>>

\* async_manager::spawn of the task that sends DeviceManagerAdded(status).
AddSpawn(c) ==
  /\ add_call[c].pc = "spawn"
  /\ add_call' = [add_call EXCEPT ![c].pc = "insert", ![c].task = "spawned"]
  /\ UNCHANGED <<channel_closed, implvars, creatorvars, devvars, scanvars, srvvars>>

\* self.comm_managers.insert(name, mgr); Ok(()): insert puts the manager
\* under the name, in place of one that is there.
AddInsert(c) ==
  /\ add_call[c].pc = "insert"
  /\ add_call' = [add_call EXCEPT ![c].pc = "done", ![c].result = "Ok",
                                  ![c].replaced = add_call[c].name \in comm_managers]
  /\ comm_managers' = comm_managers \cup {add_call[c].name}
  /\ UNCHANGED <<devices, scanning_status, finish_owed, spawned, request, device_event_sender,
                 scanning_in_progress, comm_manager_scanning_statuses, finished_emitted,
                 early_finish, rounds, nreqs, channel_closed, implvars, creatorvars, devvars, srvvars>>

\* The task spawned by the call runs: DeviceManagerAdded goes to the event loop.
AddTaskRuns(c) ==
  /\ add_call[c].task = "spawned"
  /\ add_call' = [add_call EXCEPT ![c].task = "sent"]
  /\ device_event_sender' =
       Append(device_event_sender, DeviceCommunicationEvent("DeviceManagerAdded", add_call[c].name))
  /\ dma_sent' = [dma_sent EXCEPT ![add_call[c].name] = @ + 1]
  /\ UNCHANGED <<comm_managers, devices, scanning_status, finish_owed, spawned, request,
                 scanning_in_progress, comm_manager_scanning_statuses, finished_emitted,
                 early_finish, rounds, nreqs, channel_closed, implvars, creatorvars, devvars>>
  /\ UNCHANGED <<device_index_generator, allocated, delivered, client_events, event_loop,
                 pinged_out, add_log, conversion>>

AddRaceNext ==
  \/ \E c \in Callers, m \in Mgrs : CallAddCommManager(c, m)
  \/ \E c \in Callers : AddCheck(c)
  \/ \E c \in Callers : AddSpawn(c)
  \/ \E c \in Callers : AddInsert(c)
  \/ \E c \in Callers : AddTaskRuns(c)

\* Threads that register comm managers at the same time.
SpecAddRace == Init /\ [][AddRaceNext]_vars


(***************************************************************************)
(* Response futures that are dropped.                                      *)
(***************************************************************************)
\* The future of a device command is dropped where it is suspended: waiting
\* for the manager's lock, or waiting for the response to a write it has
\* sent.  The writes it has not sent yet are dropped with it; the write that is
\* in the channel stays there.
DropFuture(t) ==
  /\ handler[t].pc \in {"lock", "await"}
  /\ handler' = [handler EXCEPT ![t].pc = "dropped"]
  /\ UNCHANGED <<vibrations, manager_lock, thread_sender, slot, bus, hardware, last_update, ncmds,
                 scanvars, srvvars, callvars>>

DropNext ==
  \/ \E t \in Handlers, c \in DeviceCommands : DeviceParseMessage(t, c)
  \/ \E t \in Handlers : AcquireLock(t)
  \/ \E t \in Handlers : UpdateVibration(t)
  \/ \E t \in Handlers : SendWrite(t)
  \/ DeviceLoopWrite
  \/ \E t \in Handlers : WriteReturns(t)
  \/ \E t \in Handlers : DropFuture(t)

\* The protocol handler with response futures dropped at any suspension point,
\* every bus write succeeding.
SpecDrop == Init /\ [][DropNext]_vars


(***************************************************************************)
(* BtlePlugDeviceImpl: the operations of one BLE device and the event loop *)
(* that owns its bus.                                                      *)
(***************************************************************************)
\* bounded(256): the capacity of the device's command channel.
ChannelCapacity == 256

\* The public operations that go through send_to_device_task.
ImplOps == {"write_value", "subscribe", "unsubscribe", "disconnect"}

\* The command each operation hands to send_to_device_task.
ButtplugDeviceCommand(op) ==
  IF op = "disconnect"
  THEN [command |-> "Disconnect", msg |-> "none"]
  ELSE [command |-> "Message",
        msg |-> CASE op = "write_value" -> "DeviceWriteCmd"
                  [] op = "subscribe" -> "DeviceSubscribeCmd"
                  [] OTHER -> "DeviceUnsubscribeCmd"]

\* The results the event loop puts into a response slot.
ButtplugDeviceReturn == {"Ok", "Error"}

\* A slip of send_to_device_task: the pair is sent a second time.
PairsSentTwice(c, cmd) == <<[from |-> c, cmd |-> cmd], [from |-> c, cmd |-> cmd]>>

\* sender.send((cmd, waker)): what one operation puts into the channel.
PairsSent(c, cmd) == <<[from |-> c, cmd |-> cmd]>>

\* A slip of send_to_device_task: the result of the send is not looked at.
SendNeverErr(closed) == FALSE

\* sender.send(..).await.is_err(): the send fails exactly when the channel is
\* closed, that is when its receiver, owned by the event loop, is gone.
SendIsErr(closed) == closed

\* An operation is called on the device: its future is created; nothing is
\* sent before the future is polled.
CallDeviceImpl(c, op) ==
  /\ impl_call[c].pc = "idle"
  /\ \A b \in ImplCalls : b < c => impl_call[b].pc # "idle"
  /\ impl_call' = [impl_call EXCEPT ![c] = [IdleImplCall EXCEPT !.pc = "send", !.op = op]]
  /\ UNCHANGED <<device_receiver, waker, bus_ops, enqueued, fulfilled, channel_closed, add_call, creatorvars,
                 devvars, scanvars, srvvars>>

\* send_to_device_task: the slot is created and sent with the command; a
\* failed send returns DeviceNotConnected.
SendToDeviceTask(c) ==
  /\ impl_call[c].pc = "send"
  /\ IF SendIsErr(channel_closed)
     THEN /\ impl_call' = [impl_call EXCEPT ![c].pc = "done", ![c].result = "DeviceNotConnected"]
          /\ UNCHANGED <<device_receiver, waker, enqueued>>
     ELSE LET pairs == PairsSent(c, ButtplugDeviceCommand(impl_call[c].op))
          IN /\ Len(device_receiver) + Len(pairs) <= ChannelCapacity
             /\ device_receiver' = device_receiver \o pairs
             /\ enqueued' = enqueued \o [k \in 1 .. Len(pairs) |-> c]
             /\ waker' = [waker EXCEPT ![c] = "pending"]
             /\ impl_call' = [impl_call EXCEPT ![c].pc = "await"]
  /\ UNCHANGED <<bus_ops, fulfilled, channel_closed, add_call, creatorvars, devvars, scanvars, srvvars>>

\* The event loop takes the oldest pair, performs its bus operation and puts
\* the outcome into the pair's slot.
EventLoopRun(r) ==
  /\ ~channel_closed
  /\ device_receiver # <<>>
  /\ LET pair == Head(device_receiver)
     IN /\ bus_ops' = Append(bus_ops, [from |-> pair.from, cmd |-> pair.cmd, reply |-> r])
        /\ waker' = [waker EXCEPT ![pair.from] = r]
        /\ fulfilled' = [fulfilled EXCEPT ![pair.from] = @ + 1]
  /\ device_receiver' = Tail(device_receiver)
  /\ UNCHANGED <<impl_call, enqueued, channel_closed, add_call, creatorvars, devvars, scanvars, srvvars>>

\* The event loop ends: its receiver is dropped, which closes the channel, and
\* the pairs still in the channel are dropped with it.
EventLoopShutdown ==
  /\ ~channel_closed
  /\ channel_closed' = TRUE
  /\ device_receiver' = <<>>
  /\ UNCHANGED <<impl_call, waker, bus_ops, enqueued, fulfilled, add_call, creatorvars, devvars, scanvars, srvvars>>

\* match fut.await: the reply in the slot becomes the operation's result.
DeviceReturns(c) ==
  /\ impl_call[c].pc = "await"
  /\ waker[c] \in ButtplugDeviceReturn
  /\ impl_call' = [impl_call EXCEPT ![c].pc = "done",
                     ![c].result = IF waker[c] = "Ok" THEN "Ok" ELSE "DeviceCommunicationError"]
  /\ waker' = [waker EXCEPT ![c] = "taken"]
  /\ UNCHANGED <<device_receiver, bus_ops, enqueued, fulfilled, channel_closed, add_call, creatorvars,
                 devvars, scanvars, srvvars>>

EventLoopStep == \E r \in ButtplugDeviceReturn : EventLoopRun(r)

BleNext ==
  \/ \E c \in ImplCalls, op \in ImplOps : CallDeviceImpl(c, op)
  \/ \E c \in ImplCalls : SendToDeviceTask(c)
  \/ EventLoopStep
  \/ EventLoopShutdown
  \/ \E c \in ImplCalls : DeviceReturns(c)

\* One BLE device: the operations called on it and its event loop, which runs
\* as long as there are pairs in the channel and it has not ended.
SpecBle == Init /\ [][BleNext]_vars /\ WF_vars(EventLoopStep)


(***************************************************************************)
(* BtlePlugDeviceImplCreator: try_create_device_impl.                      *)
(***************************************************************************)
\* What the event loop answers to the Connect command.
ConnectReplies == {"Connected", "Error", "Ok"}

\* A slip of try_create_device_impl: the peripheral is looked at and left in
\* the creator.
DeviceKept(d) == d

\* self.device.take(): the creator holds no peripheral afterwards.
DeviceTaken(d) == "None"

\* The result of the call for the reply to Connect.
CreateResult(r) ==
  CASE r = "Connected" -> "Ok"
    [] r = "Error" -> "DeviceConnectionError"
    [] OTHER -> "UnexpectedType"

\* try_create_device_impl up to its first suspension point: without a
\* peripheral it returns the error; otherwise it takes the peripheral, and
\* with a Bluetooth LE definition it creates the channel and spawns the event
\* loop, without one it returns the error.  A call borrows the creator
\* mutably, so the calls do not overlap.
TryCreateDeviceImpl(btle) ==
  /\ create_call.pc = "idle"
  /\ Len(create_log) < MaxCreates
  /\ LET call == [IdleCreate EXCEPT !.btle = btle, !.had_device = (device = "Some")]
     IN IF device = "None"
        THEN /\ create_log' = Append(create_log, [call EXCEPT !.pc = "done", !.result = "DeviceConnectionError"])
             /\ UNCHANGED <<device, create_call, event_loops>>
        ELSE /\ device' = DeviceTaken(device)
             /\ IF btle
                THEN /\ create_call' = [call EXCEPT !.pc = "send", !.spawned = TRUE]
                     /\ event_loops' = event_loops + 1
                     /\ UNCHANGED create_log
                ELSE /\ create_log' = Append(create_log, [call EXCEPT !.pc = "done", !.result = "DeviceConnectionError"])
                     /\ UNCHANGED <<create_call, event_loops>>
  /\ UNCHANGED <<connects, channel_closed, add_call, implvars, devvars, scanvars, srvvars>>

\* get_specifier: the specifier is made from the held peripheral's name; without
\* a peripheral the call panics.
GetSpecifier ==
  /\ create_call.pc = "idle"
  /\ Len(create_log) < MaxCreates
  /\ create_log' = Append(create_log,
       [IdleCreate EXCEPT !.pc = "done", !.op = "get_specifier", !.had_device = (device = "Some"),
                          !.result = IF device = "None" THEN "panic" ELSE "BluetoothLE"])
  /\ UNCHANGED <<device, create_call, event_loops, connects, channel_closed, add_call, implvars,
                 devvars, scanvars, srvvars>>

\* device_sender.send((Connect, waker)): the command goes to the event loop,
\* or the loop has exited and the call returns the error.
SendConnect(ok) ==
  /\ create_call.pc = "send"
  /\ IF ok
     THEN /\ create_call' = [create_call EXCEPT !.pc = "await", !.sent = TRUE]
          /\ connects' = connects + 1
          /\ UNCHANGED create_log
     ELSE /\ create_log' = Append(create_log, [create_call EXCEPT !.pc = "done", !.result = "DeviceConnectionError"])
          /\ create_call' = IdleCreate
          /\ UNCHANGED connects
  /\ UNCHANGED <<device, event_loops, channel_closed, add_call, implvars, devvars, scanvars, srvvars>>

\* match fut.await: the reply to Connect decides the call's result.
ConnectReturns(r) ==
  /\ create_call.pc = "await"
  /\ create_log' = Append(create_log, [create_call EXCEPT !.pc = "done", !.result = CreateResult(r)])
  /\ create_call' = IdleCreate
  /\ UNCHANGED <<device, event_loops, connects, channel_closed, add_call, implvars, devvars, scanvars, srvvars>>

\* The call's future is dropped where it is suspended.
DropCreate ==
  /\ create_call.pc \in {"send", "await"}
  /\ create_log' = Append(create_log, [create_call EXCEPT !.pc = "dropped"])
  /\ create_call' = IdleCreate
  /\ UNCHANGED <<device, event_loops, connects, channel_closed, add_call, implvars, devvars, scanvars, srvvars>>

CreatorNext ==
  \/ GetSpecifier
  \/ \E btle \in BOOLEAN : TryCreateDeviceImpl(btle)
  \/ \E ok \in BOOLEAN : SendConnect(ok)
  \/ \E r \in ConnectReplies : ConnectReturns(r)
  \/ DropCreate

\* One creator, asked for its specifier and for a device impl several times.
SpecCreator == Init /\ [][CreatorNext]_vars


Next == DevNext \/ ScanNext \/ RouteNext \/ AddNext \/ MessagesNext \/ ServerNext \/ VibrateNext \/ AddRaceNext \/ DropNext \/ BleNext \/ CreatorNext

Spec == Init /\ [][Next]_vars

(***************************************************************************)
(* Properties of the device manager.                                       *)
(***************************************************************************)
\* Nothing is left to happen in the scanning machinery: no request is in
\* flight, no event or DeviceManagerAdded task is pending, no manager scans
\* or has its ScanningFinished still to send.
ScanQuiescent ==
  /\ \A r \in Reqs : request[r].pc \in {"idle", "done"}
  /\ device_event_sender = <<>>
  /\ spawned = {}
  /\ \A m \in Mgrs : ~scanning_status[m] /\ finish_owed[m] = 0

\* C6 as stated: the client gets exactly one ScanningFinished for each
\* scanning round, and gets none while a registered manager still scans.
C6_OneFinishedPerRound ==
  /\ ~early_finish
  /\ finished_emitted <= rounds
  /\ ScanQuiescent => finished_emitted = rounds

\* The request is a StartScanning (StopScanning) that parse_message has taken.
IsStart(q) == q.variant = "StartScanning" /\ q.pc # "idle"
IsStop(q) == q.variant = "StopScanning" /\ q.pc # "idle"

\* Some manager registered when the request was taken had its status flag set.
SawScanning(q) == \E m \in q.regs : q.seen[m]

\* C7: start_scanning returns NoDeviceCommManagers exactly when no manager is
\* registered and DeviceScanningAlreadyStarted exactly when one is and some
\* registered manager's status is true; in both cases it has returned, has
\* called start_scanning on no manager and has sent no probe; otherwise it
\* has called start_scanning exactly once on every registered manager.
C7_StartScanningChecks ==
  \A r \in Reqs : IsStart(request[r]) =>
    LET q == request[r]
    IN /\ (q.result = "NoDeviceCommManagers") <=> (q.regs = {})
       /\ (q.result = "DeviceScanningAlreadyStarted") <=> (q.regs # {} /\ SawScanning(q))
       /\ (q.regs = {} \/ SawScanning(q)) =>
            /\ q.pc = "done"
            /\ \A m \in Mgrs : q.invoked[m] = 0
            /\ q.pending = {}
            /\ q.probes = <<>>
       /\ ~(q.regs = {} \/ SawScanning(q)) =>
            \A m \in Mgrs : q.invoked[m] = IF m \in q.regs THEN 1 ELSE 0

\* One StartScanning was refused because a manager was scanning, and another
\* has called start_scanning on two managers.
C7_Witness ==
  /\ \E r \in Reqs : IsStart(request[r]) /\ request[r].result = "DeviceScanningAlreadyStarted"
  /\ \E r \in Reqs : IsStart(request[r]) /\ Cardinality(request[r].regs) = 2
                      /\ \A m \in request[r].regs : request[r].invoked[m] = 1

\* C8: stop_scanning returns NoDeviceCommManagers exactly when no manager is
\* registered and DeviceScanningAlreadyStopped exactly when one is and no
\* registered manager's status is true, in both cases having called
\* stop_scanning on no manager; otherwise it has called stop_scanning exactly
\* once on every registered manager, scanning or not, and returns Ok once all
\* of them have returned.
C8_StopScanningChecks ==
  \A r \in Reqs : IsStop(request[r]) =>
    LET q == request[r]
    IN /\ (q.result = "NoDeviceCommManagers") <=> (q.regs = {})
       /\ (q.result = "DeviceScanningAlreadyStopped") <=> (q.regs # {} /\ ~SawScanning(q))
       /\ (q.regs = {} \/ ~SawScanning(q)) =>
            /\ q.pc = "done"
            /\ \A m \in Mgrs : q.invoked[m] = 0
            /\ q.pending = {}
       /\ (q.regs # {} /\ SawScanning(q)) =>
            /\ \A m \in Mgrs : q.invoked[m] = IF m \in q.regs THEN 1 ELSE 0
            /\ (q.pc = "done") <=> (q.pending = {})
            /\ (q.pc = "done") <=> (q.result = "Ok")
            /\ q.result \in {"none", "Ok"}

\* A StopScanning has returned Ok after calling stop_scanning on a manager
\* that was scanning and on one that was not.
C8_Witness ==
  \E r \in Reqs :
    /\ IsStop(request[r]) /\ request[r].result = "Ok"
    /\ \E m, n \in request[r].regs :
         /\ request[r].seen[m] /\ ~request[r].seen[n]
         /\ request[r].invoked[m] = 1 /\ request[r].invoked[n] = 1

\* C9: a start_scanning that passed its checks sends nothing to the event
\* loop before every manager's start_scanning future has completed; it then
\* sends ScanningStarted and ScanningFinished, in that order, and returns Ok
\* after the second, whether the managers' calls succeeded or failed.
C9_ProbeAfterJoin ==
  \A r \in Reqs :
    (IsStart(request[r]) /\ request[r].regs # {} /\ ~SawScanning(request[r])) =>
      LET q == request[r]
      IN /\ IsPrefix(q.probes, <<"ScanningStarted", "ScanningFinished">>)
         /\ q.probes # <<>> => q.pending = {}
         /\ (q.pc = "done") <=> (q.probes = <<"ScanningStarted", "ScanningFinished">>)
         /\ (q.pc = "done") <=> (q.result = "Ok")
         /\ q.result \in {"none", "Ok"}

\* A start_scanning has returned Ok after both probe events although a
\* manager's start_scanning call failed.
C9_Witness ==
  \E r \in Reqs :
    /\ IsStart(request[r]) /\ request[r].result = "Ok"
    /\ request[r].probes = <<"ScanningStarted", "ScanningFinished">>
    /\ request[r].failed # {}
    /\ request[r].failed # request[r].regs

\* The outcome of parse_message when the manager union is tried first.
ManagerFirst(v) ==
  IF v \in ButtplugDeviceManagerMessageUnion THEN "manager"
  ELSE IF v \in ButtplugDeviceCommandMessageUnion THEN "device"
  ELSE "UnexpectedMessageType"

\* C10: parse_message routes a message to a device exactly for the fourteen
\* device commands, handles it itself exactly for RequestDeviceList,
\* StopAllDevices, StartScanning and StopScanning, and answers
\* UnexpectedMessageType exactly for Ping, RequestLog, RequestServerInfo and
\* LovenseCmd; no variant is in both unions, and trying the manager union
\* first gives the same outcome.
C10_Routing ==
  /\ \A r \in Reqs : request[r].pc # "idle" =>
       LET q == request[r]
       IN /\ q.variant \in ButtplugClientMessage
          /\ (q.route = "manager") <=>
               (q.variant \in {"RequestDeviceList", "StopAllDevices", "StartScanning", "StopScanning"})
          /\ (q.route = "UnexpectedMessageType") <=>
               (q.variant \in {"Ping", "RequestLog", "RequestServerInfo", "LovenseCmd"})
          /\ (q.route = "device") <=>
               (q.variant \in {"VibrateCmd", "LinearCmd", "RotateCmd", "StopDeviceCmd",
                               "RawWriteCmd", "RawReadCmd", "RawSubscribeCmd", "RawUnsubscribeCmd",
                               "BatteryLevelCmd", "RSSILevelCmd", "SingleMotorVibrateCmd",
                               "FleshlightLaunchFW12Cmd", "KiirooCmd", "VorzeA10CycloneCmd"})
          /\ (q.result = "UnexpectedMessageType") <=> (q.route = "UnexpectedMessageType")
          /\ q.route = "device" => q.result \in {"Device", "DeviceNotAvailable"}
          /\ q.route = ManagerFirst(q.variant)
  /\ ButtplugDeviceCommandMessageUnion \cap ButtplugDeviceManagerMessageUnion = {}

\* A LovenseCmd was rejected and a VibrateCmd was routed to the devices map.
C10_Witness ==
  /\ \E r \in Reqs : request[r].variant = "LovenseCmd" /\ request[r].result = "UnexpectedMessageType"
  /\ \E r \in Reqs : request[r].variant = "VibrateCmd" /\ request[r].route = "device"

(***************************************************************************)
(* Properties of add_comm_manager.                                         *)
(***************************************************************************)
\* DeviceManagerAdded events for manager m that are in the channel.
AddedInChannel(m) ==
  Cardinality({ k \in 1 .. Len(device_event_sender) :
                  device_event_sender[k] = DeviceCommunicationEvent("DeviceManagerAdded", m) })

\* The map of comm managers after the k-th call of add_comm_manager.
MapAfterAdd(k) == IF k < Len(add_log) THEN add_log[k + 1].before ELSE comm_managers

\* The state part of C13: a call with a registered name returns
\* DeviceManagerTypeAlreadyAdded, leaves the map as it was and spawns no
\* send; a call with a new name returns Ok and inserts the name; and for
\* every manager one DeviceManagerAdded with its flag is pending, in the
\* channel or with the event loop when it is registered, none when it is not.
C13_AddState ==
  /\ \A k \in 1 .. Len(add_log) :
       LET a == add_log[k]
       IN IF a.name \in a.before
          THEN a.result = "DeviceManagerTypeAlreadyAdded" /\ MapAfterAdd(k) = a.before /\ ~a.spawned
          ELSE a.result = "Ok" /\ MapAfterAdd(k) = a.before \cup {a.name} /\ a.spawned
  /\ \A m \in Mgrs :
       /\ dma_sent[m] + (IF m \in spawned THEN 1 ELSE 0) = (IF m \in comm_managers THEN 1 ELSE 0)
       /\ AddedInChannel(m) + (IF m \in comm_manager_scanning_statuses THEN 1 ELSE 0) = dma_sent[m]

\* C13: add_comm_manager with a registered name returns
\* DeviceManagerTypeAlreadyAdded, leaves the map unchanged and sends no
\* DeviceManagerAdded; with a new name it inserts the manager, and exactly one
\* DeviceManagerAdded carrying that manager's status flag is eventually
\* delivered to the event loop.
C13_AddCommManager ==
  /\ []C13_AddState
  /\ \A m \in Mgrs : (m \in comm_managers) ~> (m \in comm_manager_scanning_statuses)

\* A second add_comm_manager under a registered name was refused after the
\* first one's DeviceManagerAdded had reached the event loop.
C13_Witness ==
  \E k \in 1 .. Len(add_log) :
    /\ add_log[k].result = "DeviceManagerTypeAlreadyAdded"
    /\ add_log[k].name \in comm_manager_scanning_statuses
    /\ dma_sent[add_log[k].name] = 1

(***************************************************************************)
(* Properties of the message conversions and of the message type order.    *)
(***************************************************************************)
\* The variants V0 and V1 can receive, and those they cannot.
LegacyServerVariants ==
  {"Ok", "Error", "Log", "ServerInfo", "DeviceList", "DeviceAdded", "DeviceRemoved",
   "ScanningFinished"}
CurrentOnlyServerVariants == {"Test", "RawReading", "BatteryLevelReading", "RSSILevelReading"}

\* C15: the down-conversion of a canonical server message to a wire version
\* succeeds, keeping the variant, exactly when the variant is in that
\* version's server-message union, and fails with VersionError otherwise; for
\* V0 and V1 it succeeds exactly for Ok, Error, Log, ServerInfo, DeviceList,
\* DeviceAdded, DeviceRemoved and ScanningFinished, and fails for Test,
\* RawReading, BatteryLevelReading and RSSILevelReading.
C15_DownConversion ==
  conversion.op = "TryFromServerMessage" =>
    /\ conversion.result.ok <=> (conversion.msg \in ServerMessageUnion(conversion.version))
    /\ conversion.result.ok => conversion.result.variant = conversion.msg
    /\ ~conversion.result.ok => conversion.result.error = "VersionError"
    /\ conversion.version \in {0, 1} =>
         /\ conversion.result.ok <=> (conversion.msg \in LegacyServerVariants)
         /\ ~conversion.result.ok <=> (conversion.msg \in CurrentOnlyServerVariants)

\* A BatteryLevelReading could not be converted for a V0 client.
C15_Witness ==
  /\ conversion.op = "TryFromServerMessage"
  /\ conversion.version = 0 /\ conversion.msg = "BatteryLevelReading"
  /\ conversion.result = [ok |-> FALSE, variant |-> "none", error |-> "VersionError"]

\* C16: every variant of the V0, V1 and V2 client-message unions is a variant
\* of ButtplugClientMessage, and its up-conversion yields that variant.
C16_UpConversionTotal ==
  /\ \A version \in ButtplugMessageSpecVersion :
       ClientMessageUnion(version) \subseteq ButtplugClientMessage
  /\ conversion.op = "IntoClientMessage" =>
       /\ conversion.msg \in ClientMessageUnion(conversion.version)
       /\ conversion.result.ok
       /\ conversion.result.variant = conversion.msg
       /\ conversion.result.variant \in ButtplugClientMessage

\* The RequestLog of a V0 client was converted to its canonical form.
C16_Witness ==
  /\ conversion.op = "IntoClientMessage"
  /\ conversion.version = 0 /\ conversion.msg = "RequestLog"
  /\ conversion.result.ok

\* The variant names in lexicographic (byte) order.
NamesInOrder ==
  <<"BatteryLevelCmd", "FleshlightLaunchFW12Cmd", "KiirooCmd", "LinearCmd", "LovenseCmd",
    "RSSILevelCmd", "RawReadCmd", "RawSubscribeCmd", "RawUnsubscribeCmd", "RawWriteCmd",
    "RotateCmd", "SingleMotorVibrateCmd", "StopDeviceCmd", "VibrateCmd", "VorzeA10CycloneCmd">>

Rank(variant) == CHOOSE k \in 1 .. Len(NamesInOrder) : NamesInOrder[k] = variant

Reverse(o) == CASE o = "Less" -> "Greater" [] o = "Greater" -> "Less" [] OTHER -> "Equal"

\* C17: cmp of two variants of either device message type enum is the
\* lexicographic comparison of their names; it is a total order (every two
\* variants are comparable, cmp(b, a) is the reverse of cmp(a, b), Less is
\* transitive), and it is Equal exactly when the variants are the same.
C17_OrderedByName ==
  conversion.op = "cmp" =>
    /\ conversion.ab \in {"Less", "Equal", "Greater"}
    /\ conversion.ab = "Less" <=> Rank(conversion.a) < Rank(conversion.b)
    /\ conversion.ab = "Greater" <=> Rank(conversion.a) > Rank(conversion.b)
    /\ conversion.ab = "Equal" <=> conversion.a = conversion.b
    /\ conversion.ba = Reverse(conversion.ab)
    /\ (conversion.ab = "Less" /\ conversion.bc = "Less") => conversion.ac = "Less"
    /\ (conversion.ab = "Equal" /\ conversion.bc = "Equal") => conversion.ac = "Equal"

\* RSSILevelCmd was found less than RawReadCmd, and RawReadCmd less than
\* VibrateCmd, in ButtplugCurrentSpecDeviceMessageType.
C17_Witness ==
  /\ conversion.op = "cmp"
  /\ conversion.enum = ButtplugCurrentSpecDeviceMessageType
  /\ conversion.a = "RSSILevelCmd" /\ conversion.b = "RawReadCmd" /\ conversion.c = "VibrateCmd"
  /\ conversion.ab = "Less" /\ conversion.bc = "Less" /\ conversion.ac = "Less"

(***************************************************************************)
(* Routing of device commands by device index.                             *)
(***************************************************************************)
\* The messages of request r that device d got.
DeliveredFrom(d, r) == { k \in 1 .. Len(delivered[d]) : delivered[d][k].from = r }

\* The device commands the device manager parsed.
RoutedDeviceCommands == { r \in Reqs : request[r].route = "device" }

\* C11: a device command whose device index is not a key of the device map
\* is answered with DeviceNotAvailable for that index and is delivered to no
\* device; one whose index is a key of the map is delivered to the device
\* under that index, once, and to no other device.
C11_DeviceRouting ==
  \A r \in RoutedDeviceCommands :
    LET q == request[r]
    IN IF q.index \notin q.devs
       THEN /\ q.result = "DeviceNotAvailable"
            /\ q.target = None
            /\ \A d \in Devs : DeliveredFrom(d, r) = {}
       ELSE /\ q.result = "Device"
            /\ q.target = q.index
            /\ Cardinality(DeliveredFrom(q.index, r)) = 1
            /\ \A k \in DeliveredFrom(q.index, r) : delivered[q.index][k].kind = q.variant
            /\ \A d \in Devs \ {q.index} : DeliveredFrom(d, r) = {}

\* A command for an absent index while another device is in the map, and a
\* command for one of two devices of the map.
C11_Witness ==
  \E r1, r2 \in RoutedDeviceCommands :
    /\ request[r1].index \notin request[r1].devs /\ request[r1].devs # {}
    /\ request[r2].index \in request[r2].devs /\ Cardinality(request[r2].devs) = 2


(***************************************************************************)
(* Stopping all devices.                                                   *)
(***************************************************************************)
\* The StopAllDevices requests the device manager ran.
StopAllRequests ==
  { r \in Reqs : request[r].variant = "StopAllDevices" /\ request[r].route = "manager" }

\* C12: stop_all_devices delivers exactly one StopDeviceCmd to every device
\* that is in the devices map when it runs and none to any other device; it
\* has returned only when every one of those stop commands has completed, and
\* then with Ok, also when stop commands failed; with an empty map it returns
\* Ok at once and delivers nothing.
C12_StopAllDevices ==
  \A r \in StopAllRequests :
    LET q == request[r]
    IN /\ \A d \in Devs :
            /\ Cardinality(DeliveredFrom(d, r)) = IF d \in q.devs THEN 1 ELSE 0
            /\ \A k \in DeliveredFrom(d, r) : delivered[d][k].kind = "StopDeviceCmd"
       /\ q.dev_pending \subseteq q.devs
       /\ q.dev_failed \subseteq q.devs \ q.dev_pending
       /\ q.pc \in {"join_stop", "done"}
       /\ q.pc = "done" <=> q.dev_pending = {}
       /\ q.pc = "done" => q.result = "Ok"
       /\ q.pc = "join_stop" => q.result = "none"
       /\ q.devs = {} => q.pc = "done"

\* stop_all_devices has returned Ok for two devices of which one failed to
\* stop, and stop_all_devices has returned for an empty map.
C12_Witness ==
  \E r1, r2 \in StopAllRequests :
    /\ request[r1].pc = "done" /\ Cardinality(request[r1].devs) = 2
    /\ Cardinality(request[r1].dev_failed) = 1
    /\ request[r2].pc = "done" /\ request[r2].devs = {}


(***************************************************************************)
(* Ids of responses.                                                       *)
(***************************************************************************)
\* The requests the device manager has answered.
AnsweredByManager ==
  { r \in Reqs : request[r].pc = "done" /\ request[r].route \in {"manager", "device"} }

EventAt(type, index) ==
  IF \E k \in 1 .. Len(client_events) :
       client_events[k].type = type /\ client_events[k].index = index
  THEN CHOOSE k \in 1 .. Len(client_events) :
         client_events[k].type = type /\ client_events[k].index = index
  ELSE 0

\* C18: the index allocated to a new device is strictly greater than every
\* index allocated before in the session, whatever was removed in between,
\* so no index is given to two devices; the counter is above all of them.
C18_IndexNeverReused ==
  /\ \A j, k \in 1 .. Len(allocated) : j < k => allocated[j] < allocated[k]
  /\ \A k \in 1 .. Len(allocated) : allocated[k] < device_index_generator
  /\ devices \subseteq { allocated[k] : k \in 1 .. Len(allocated) }

\* A second device was added after the first was removed from the map and
\* the client was told so.
C18_Witness ==
  /\ Len(allocated) = 2
  /\ allocated[1] \notin devices
  /\ allocated[2] \in devices
  /\ EventAt("DeviceRemoved", allocated[1]) # 0
  /\ EventAt("DeviceRemoved", allocated[1]) < EventAt("DeviceAdded", allocated[2])


(***************************************************************************)
(* Ping timeout.                                                           *)
(***************************************************************************)
\* The positions of the PingTimeout errors in the client's events.
PingTimeoutEvents ==
  { k \in 1 .. Len(client_events) : client_events[k].type = "PingTimeout" }

\* The last PingTimeout error sent to the client.
LastPingTimeout ==
  client_events[CHOOSE k \in PingTimeoutEvents : \A j \in PingTimeoutEvents : j <= k]

\* The client messages that came in after the last ping timeout.
SincePingTimeout == { r \in Reqs : LastPingTimeout.nreqs < r /\ r <= nreqs }

\* C19: at each ping timeout every device registered at that moment got a
\* stop command and the client got an Error with code PingTimeout as a server
\* event; while no new handshake was made, every client message that came in
\* after the timeout, the device commands among them, is answered with
\* DeviceNotConnected and nothing of it is delivered to a device.
C19_PingTimeout ==
  /\ \A d \in Devs :
       Cardinality(DeliveredFrom(d, 0))
         = Cardinality({ k \in PingTimeoutEvents : d \in client_events[k].devs })
  /\ \A d \in Devs : \A k \in DeliveredFrom(d, 0) : delivered[d][k].kind = "StopDeviceCmd"
  /\ \A k \in PingTimeoutEvents : client_events[k].id = BUTTPLUG_SERVER_EVENT_ID
  /\ pinged_out =>
       /\ PingTimeoutEvents # {}
       /\ \A r \in SincePingTimeout :
            /\ request[r].pc = "done"
            /\ request[r].result = "DeviceNotConnected"
            /\ \A d \in Devs : DeliveredFrom(d, r) = {}

\* The ping timer expired with two devices registered, and a VibrateCmd for
\* one of them came in before any new handshake.
C19_Witness ==
  /\ pinged_out
  /\ PingTimeoutEvents # {}
  /\ Cardinality(LastPingTimeout.devs) = 2
  /\ \E r \in SincePingTimeout :
       /\ request[r].variant = "VibrateCmd"
       /\ request[r].index \in devices
       /\ request[r].result = "DeviceNotConnected"


(***************************************************************************)
(* RequestDeviceList.                                                      *)
(***************************************************************************)
\* The RequestDeviceList requests the device manager handled.
ListRequests ==
  { r \in Reqs : request[r].variant = "RequestDeviceList" /\ request[r].route = "manager" }

\* The event of that type and index was sent to the client before request r
\* was handled.
EmittedBefore(r, type, index) ==
  EventAt(type, index) # 0 /\ EventAt(type, index) <= request[r].seen_events

\* The devices map and the list of every RequestDeviceList handled so far.
C20_ListState ==
  \A r \in ListRequests :
    LET q == request[r]
    IN /\ q.pc = "done" /\ q.result = "DeviceList"
       /\ q.list = q.devs
       /\ \A d \in Devs :
            EmittedBefore(r, "DeviceAdded", d) /\ ~EmittedBefore(r, "DeviceRemoved", d)
              => d \in q.list
       /\ \A d \in Devs \ q.devs : d \notin q.list

\* Request r is handled as a RequestDeviceList in this step.
ListHandled(r) ==
  /\ request[r].pc = "idle"
  /\ request'[r].variant = "RequestDeviceList"
  /\ request'[r].route = "manager"

\* C20: the DeviceList returned for RequestDeviceList has exactly the
\* devices that are in the devices map when the request is handled, each
\* under its index: a device whose DeviceAdded was emitted and whose
\* DeviceRemoved was not is in the list, a device removed from the map is
\* not; and handling the request leaves the devices map as it is.
C20_DeviceList ==
  /\ []C20_ListState
  /\ [][\A r \in Reqs : ListHandled(r) => devices' = devices]_vars

\* A list asked for after two devices were added and the first of them was
\* removed: it has the second device only.
C20_Witness ==
  \E r \in ListRequests :
    /\ Len(allocated) = 2
    /\ EmittedBefore(r, "DeviceAdded", allocated[1])
    /\ EmittedBefore(r, "DeviceRemoved", allocated[1])
    /\ EmittedBefore(r, "DeviceAdded", allocated[2])
    /\ request[r].list = {allocated[2]}


(***************************************************************************)
(* Validation of VibrateCmd.                                               *)
(***************************************************************************)
\* The message has a sub-index at or above the feature count, a speed
\* outside [0.0, 1.0], or two subcommands with the same sub-index.
Rejectable(msg) ==
  \/ \E k \in 1 .. Len(msg) : msg[k].index >= FeatureCount
  \/ \E k \in 1 .. Len(msg) : msg[k].speed < 0 \/ msg[k].speed > 10
  \/ \E j, k \in 1 .. Len(msg) : j < k /\ msg[j].index = msg[k].index

\* The handler is past its call of update_vibration.
PastUpdate(t) == handler[t].pc \in {"send", "await", "done"}

\* The writes of handler t that are in the device's channel or on the bus.
WritesOf(t) ==
  { k \in 1 .. Len(thread_sender) : thread_sender[k].from = t }
    \cup { Len(thread_sender) + k : k \in { b \in 1 .. Len(bus) : bus[b].from = t } }

\* C21: a VibrateCmd with a sub-index at or above the feature count, with a
\* speed outside [0.0, 1.0] or with a sub-index addressed twice is rejected
\* with a message error: its handler returns that error without sending any
\* write to the device, and the commanded-state cache is as it was before.
C21_InvalidRejected ==
  \A t \in Handlers :
    (handler[t].kind = "VibrateCmd" /\ Rejectable(handler[t].msg) /\ PastUpdate(t)) =>
      /\ handler[t].pc = "done"
      /\ handler[t].result = "MessageError"
      /\ handler[t].written = <<>> /\ handler[t].fut_vec = <<>>
      /\ WritesOf(t) = {}
      /\ last_update = t => vibrations = handler[t].before

\* After a command that set a motor, a VibrateCmd of each kind of fault has
\* been rejected: here the one handled last, with the cache not empty.
C21_Witness ==
  \E t \in Handlers :
    /\ handler[t].kind = "VibrateCmd" /\ Rejectable(handler[t].msg)
    /\ Len(handler[t].msg) = 2
    /\ handler[t].msg[1].index = handler[t].msg[2].index
    /\ handler[t].pc = "done"
    /\ last_update = t
    /\ \E p \in 1 .. FeatureCount : vibrations[p] # None /\ vibrations[p] # 0
    /\ bus # <<>>


(***************************************************************************)
(* Quantization of speeds.                                                 *)
(***************************************************************************)
\* The speed (in tenths) the message commands for motor m.
SpeedFor(msg, m) == msg[CHOOSE k \in 1 .. Len(msg) : msg[k].index = m].speed

\* The writes sent so far, each as the handler's message, a motor the frame
\* sets and the byte written for it.
MotorBytes ==
  UNION { UNION { { [msg |-> handler[t].msg, motor |-> m, byte |-> handler[t].written[k].data[3]] :
                      m \in FrameMotors(handler[t].written[k]) } :
                  k \in 1 .. Len(handler[t].written) } :
          t \in Handlers }

\* Ten times the distance between the byte and speed times step count.
Distance(w) ==
  IF 10 * w.byte >= SpeedFor(w.msg, w.motor) * StepCount
  THEN 10 * w.byte - SpeedFor(w.msg, w.motor) * StepCount
  ELSE SpeedFor(w.msg, w.motor) * StepCount - 10 * w.byte

\* C22 as stated: the byte written for a motor is the commanded speed times
\* the step count rounded to the nearest integer (a half either way), and
\* lies between 0 and the step count.
C22_RoundedToNearest ==
  \A w \in MotorBytes :
    /\ 2 * Distance(w) <= 10
    /\ 0 <= w.byte /\ w.byte <= StepCount

\* C22 as amended: the byte written for a motor is the commanded speed times
\* the step count with the fraction dropped, and lies between 0 and the step
\* count.
C22_Truncated ==
  \A w \in MotorBytes :
    /\ 10 * w.byte <= SpeedFor(w.msg, w.motor) * StepCount
    /\ SpeedFor(w.msg, w.motor) * StepCount < 10 * (w.byte + 1)
    /\ 0 <= w.byte /\ w.byte <= StepCount

\* Writes were sent for the speed 0.1, whose product with the step count is
\* 12.7, and for the speed 1.0, which gives the step count itself.
C22_Witness ==
  /\ \E w \in MotorBytes : SpeedFor(w.msg, w.motor) = 1
  /\ \E w \in MotorBytes : SpeedFor(w.msg, w.motor) = 10 /\ w.byte = StepCount


(***************************************************************************)
(* Length of the commanded-state vector and of the diff vectors.           *)
(***************************************************************************)
\* C23: after any sequence of VibrateCmd and StopDeviceCmd messages, valid
\* or rejected, the commanded-state vector of the vibrate class has as many
\* entries as the device has vibrate features (2), and so has every diff
\* vector a handler got from update_vibration: entry 0 of it exists.
C23_VectorLengths ==
  /\ FeatureCount = 2
  /\ Len(vibrations) = FeatureCount
  /\ \A t \in Handlers :
       /\ PastUpdate(t) => Len(handler[t].before) = FeatureCount
       /\ Updated(t) => Len(handler[t].cmds) = FeatureCount /\ 1 \in DOMAIN handler[t].cmds

\* A VibrateCmd with one subcommand, for the second motor, and a
\* StopDeviceCmd after it have both got their diff vectors.
C23_Witness ==
  \E t, u \in Handlers :
    /\ handler[t].kind = "VibrateCmd" /\ Len(handler[t].msg) = 1 /\ handler[t].msg[1].index = 1
    /\ Updated(t) /\ handler[t].cmds[1] = None /\ handler[t].cmds[2] # None
    /\ handler[u].kind = "StopDeviceCmd" /\ handler[u].prev = t /\ Updated(u)


(***************************************************************************)
(* Scope of the command manager's lock.                                    *)
(***************************************************************************)
\* C29: in handle_vibrate_cmd the mutex of the command manager is held only
\* while update_vibration runs: a handler that holds it has sent no write
\* yet, and no handler holds it while one of its writes is in the channel, on
\* the bus or waiting for its response.
C29_LockNotHeldAcrossWrites ==
  /\ manager_lock \in {0} \cup Handlers
  /\ \A t \in Handlers :
       /\ manager_lock = t =>
            /\ handler[t].pc = "update"
            /\ handler[t].written = <<>>
            /\ slot[t] = "empty"
            /\ WritesOf(t) = {}
       /\ (handler[t].pc \in {"send", "await"} \/ slot[t] # "empty") => manager_lock # t

\* One handler waits for the response to its write while another handler
\* holds the lock for its update_vibration.
C29_Witness ==
  \E t, u \in Handlers :
    /\ t # u
    /\ handler[t].pc = "await" /\ slot[t] = "pending"
    /\ manager_lock = u /\ handler[u].pc = "update"


(***************************************************************************)
(* Two StartScanning requests at the same time.                            *)
(***************************************************************************)
\* The StartScanning requests the device manager has received.
StartRequests ==
  { r \in Reqs : request[r].variant = "StartScanning" /\ request[r].route = "manager" }

\* C30: when a StartScanning request comes in while an earlier one, which
\* passed the already-scanning check, is still awaiting the managers' start
\* calls, the later one does not pass the check: it returns
\* DeviceScanningAlreadyStarted and invokes start_scanning on no manager, so
\* no manager is started twice.
C30_OneStartPasses ==
  \A r1, r2 \in StartRequests :
    (r1 < r2 /\ request[r1].pc = "join") =>
      /\ request[r2].result = "DeviceScanningAlreadyStarted"
      /\ \A m \in Mgrs : request[r1].invoked[m] + request[r2].invoked[m] <= 1


(***************************************************************************)
(* Validation of message ids.                                              *)
(***************************************************************************)
\* C27: is_system_id succeeds exactly for id 0 and is_not_system_id exactly
\* for the other ids, so exactly one of the two succeeds for every id and the
\* other gives a message error; is_server_event is true for a message exactly
\* when is_system_id accepts its id.
C27_IdValidators ==
  conversion.op = "validate" =>
    /\ conversion.system = "Ok" <=> conversion.id = 0
    /\ conversion.not_system = "Ok" <=> conversion.id # 0
    /\ conversion.system = "Ok" <=> conversion.not_system # "Ok"
    /\ {conversion.system, conversion.not_system} = {"Ok", "InvalidMessageContents"}
    /\ conversion.server_event <=> conversion.system = "Ok"

\* The validators were run on the smallest request id.
C27_Witness ==
  /\ conversion.op = "validate"
  /\ conversion.id = 1
  /\ conversion.not_system = "Ok" /\ conversion.system = "InvalidMessageContents"
  /\ ~conversion.server_event


(***************************************************************************)
(* add_comm_manager from several threads.                                  *)
(***************************************************************************)
\* The calls of add_comm_manager for that name that returned Ok.
OkCalls(m) == { c \in Callers : add_call[c].name = m /\ add_call[c].result = "Ok" }

\* The calls for that name that spawned the task sending DeviceManagerAdded.
SpawnedTasks(m) == { c \in Callers : add_call[c].name = m /\ add_call[c].task # "none" }

\* C28: with add_comm_manager running in several threads, at most one call
\* for a name returns Ok, no insert replaces a manager that is stored under
\* the name, and at most one DeviceManagerAdded is sent for the name.
C28_WriteOncePerName ==
  \A m \in Mgrs :
    /\ Cardinality(OkCalls(m)) <= 1
    /\ \A c \in Callers : ~add_call[c].replaced
    /\ Cardinality(SpawnedTasks(m)) <= 1
    /\ dma_sent[m] <= 1


(***************************************************************************)
(* Dropped response futures.                                               *)
(***************************************************************************)
\* Some command's future was dropped, and nothing is under way: every other
\* command that was started has returned Ok and the channel is empty.
QuietAfterDrop ==
  /\ \E t \in Handlers : handler[t].pc = "dropped"
  /\ \A t \in Handlers :
       \/ handler[t].pc \in {"idle", "dropped"}
       \/ handler[t].pc = "done" /\ handler[t].result = "Ok"
  /\ thread_sender = <<>>

\* C25: after the response future of a device command was dropped at a
\* suspension point, the commanded-state cache and the values written to the
\* hardware agree for every motor, and the lock is free for later commands.
C25_DropKeepsAgreement ==
  /\ (\E t \in Handlers : handler[t].pc = "dropped") => manager_lock \notin
       { t \in Handlers : handler[t].pc = "dropped" }
  /\ QuietAfterDrop => hardware = vibrations


(***************************************************************************)
(* The BLE device's operations and its event loop.                         *)
(***************************************************************************)
\* How many pairs an operation has put into the channel.
PairsOf(c) == Cardinality({ k \in 1 .. Len(enqueued) : enqueued[k] = c })

\* The operations whose bus operation was performed, in the order of the bus.
BusOrder == [k \in 1 .. Len(bus_ops) |-> bus_ops[k].from]

\* A step that performs a bus operation is a step of the event loop on the
\* oldest pair of the channel, and performs that one operation only.
OldestPairOnly ==
  bus_ops' # bus_ops =>
    /\ device_receiver # <<>>
    /\ device_receiver' = Tail(device_receiver)
    /\ Len(bus_ops') = Len(bus_ops) + 1
    /\ SubSeq(bus_ops', 1, Len(bus_ops)) = bus_ops
    /\ bus_ops'[Len(bus_ops')].from = Head(device_receiver).from
    /\ bus_ops'[Len(bus_ops')].cmd = Head(device_receiver).cmd
    /\ impl_call' = impl_call

ClosedStep ==
  channel_closed =>
    /\ channel_closed'
    /\ bus_ops' = bus_ops
    /\ device_receiver' = device_receiver
    /\ enqueued' = enqueued
    /\ \A c \in ImplCalls :
         impl_call[c].pc = "send" /\ impl_call'[c] # impl_call[c] =>
           impl_call'[c].pc = "done" /\ impl_call'[c].result = "DeviceNotConnected"

\* C26: once the channel is closed, every write_value, subscribe, unsubscribe
\* and disconnect that is sent afterwards returns DeviceNotConnected, and no
\* bus operation is performed for it or for anything else.
C26_ClosedChannelRejects ==
  /\ [][ClosedStep]_vars
  /\ [](\A c \in ImplCalls :
          impl_call[c].result = "DeviceNotConnected" =>
            /\ channel_closed
            /\ PairsOf(c) = 0
            /\ \A k \in 1 .. Len(bus_ops) : bus_ops[k].from # c)

\* A write was performed and returned Ok, the event loop ended, and a later
\* disconnect returned DeviceNotConnected.
C26_Witness ==
  /\ channel_closed
  /\ impl_call[1].op = "write_value" /\ impl_call[1].result = "Ok"
  /\ impl_call[2].op = "disconnect" /\ impl_call[2].result = "DeviceNotConnected"
  /\ Len(bus_ops) = 1


(***************************************************************************)
(* DeviceManagerAdded against the probe of start_scanning.                 *)
(***************************************************************************)
\* The managers a start_scanning call has called start_scanning() on.
StartedBy(r) == { m \in Mgrs : request[r].invoked[m] > 0 }

\* C31: when a start_scanning call has sent an event of its probe, the
\* DeviceManagerAdded of every manager it started has already been sent, so
\* it is ahead of the probe in the event loop's channel.
C31_AddedBeforeProbe ==
  \A r \in Reqs :
    request[r].variant = "StartScanning" /\ request[r].probes # <<>> =>
      \A m \in StartedBy(r) : m \notin spawned


(***************************************************************************)
(* A bus write that fails.                                                 *)
(***************************************************************************)
\* Some command has returned the error of a failed write, and nothing is
\* under way: every command that was started has returned and the channel is
\* empty.
QuietAfterFailedWrite ==
  /\ \E t \in Handlers : handler[t].result = "DeviceCommunicationError"
  /\ \A t \in Handlers : handler[t].pc \in {"idle", "done"}
  /\ thread_sender = <<>>

\* C32: a command whose bus write failed has returned that error with its
\* remaining writes unsent, and once nothing is under way the commanded-state
\* cache equals, for every motor, the value last written to the hardware.
C32_FailedWriteKeepsCache ==
  /\ \A t \in Handlers :
       handler[t].result = "DeviceCommunicationError" =>
         handler[t].pc = "done" /\ handler[t].fut_vec = <<>>
  /\ QuietAfterFailedWrite => hardware = vibrations


(***************************************************************************)
(* Completion of the operations' futures.                                  *)
(***************************************************************************)
\* The future of operation c can still complete: its slot holds a reply, or
\* its pair is in the channel of an event loop that runs.  A slot gets its
\* reply only from the event loop taking the pair, so a suspended future for
\* which this is false stays suspended for ever.
CanComplete(c) ==
  \/ waker[c] \in ButtplugDeviceReturn
  \/ ~channel_closed /\ \E k \in 1 .. Len(device_receiver) : device_receiver[k].from = c

\* C33: every future returned by write_value, subscribe, unsubscribe or
\* disconnect completes in the end, also when the event loop ends while the
\* command is in the channel: a future suspended at fut.await can always still
\* complete.
C33_FuturesComplete ==
  \A c \in ImplCalls : impl_call[c].pc = "await" => CanComplete(c)


(***************************************************************************)
(* The creator yields at most one device.                                  *)
(***************************************************************************)
\* The calls of try_create_device_impl so far, in order: those that have
\* ended and the one under way.
CreateCalls ==
  SelectSeq(create_log, LAMBDA e : e.op = "try_create_device_impl")
    \o (IF create_call.pc = "idle" THEN <<>> ELSE <<create_call>>)

\* C34: the first call of try_create_device_impl takes the peripheral, however
\* it ends; every later call returns DeviceConnectionError, spawns no event
\* loop and sends no Connect; so at most one call returns a device.
C34_AtMostOneDevice ==
  /\ CreateCalls # <<>> => device = "None"
  /\ \A k \in 1 .. Len(CreateCalls) :
       IF k = 1
       THEN CreateCalls[k].had_device
       ELSE /\ ~CreateCalls[k].had_device
            /\ CreateCalls[k].result = "DeviceConnectionError"
            /\ ~CreateCalls[k].spawned
            /\ ~CreateCalls[k].sent
  /\ Cardinality({ k \in 1 .. Len(CreateCalls) : CreateCalls[k].result = "Ok" }) <= 1
  /\ event_loops <= 1
  /\ connects <= 1

\* The first call failed for a protocol without a Bluetooth LE definition,
\* and two later calls, one of them with such a definition, got the error.
C34_Witness ==
  /\ Len(CreateCalls) = 3
  /\ ~CreateCalls[1].btle /\ CreateCalls[1].result = "DeviceConnectionError"
  /\ CreateCalls[2].btle /\ CreateCalls[2].result = "DeviceConnectionError"
  /\ event_loops = 0


(***************************************************************************)
(* Conversion between the two device message type enums.                   *)
(***************************************************************************)
\* The deprecated variants, which the current spec's enum does not have.
DeprecatedDeviceMessageTypes ==
  {"SingleMotorVibrateCmd", "FleshlightLaunchFW12Cmd", "LovenseCmd", "KiirooCmd",
   "VorzeA10CycloneCmd"}

\* C35: a variant of ButtplugCurrentSpecDeviceMessageType converted to
\* ButtplugDeviceMessageType and back is itself; try_from of a
\* ButtplugDeviceMessageType fails with MessageConversionError exactly for the
\* five deprecated variants and otherwise gives the variant of the same name;
\* and two convertible variants compare as their images do.
C35_TypeConversion ==
  /\ conversion.op = "from" =>
       /\ conversion.into \in Variants(ButtplugDeviceMessageType)
       /\ to_string(conversion.into) = to_string(conversion.c)
       /\ conversion.back = ConvertedTo(conversion.c)
  /\ conversion.op = "try_from" =>
       /\ ~conversion.ra.ok <=> conversion.a \in DeprecatedDeviceMessageTypes
       /\ ~conversion.ra.ok => conversion.ra.error = "MessageConversionError"
       /\ conversion.ra.ok =>
            /\ conversion.ra.variant \in Variants(ButtplugCurrentSpecDeviceMessageType)
            /\ to_string(conversion.ra.variant) = to_string(conversion.a)
       /\ (conversion.ra.ok /\ conversion.rb.ok) => conversion.images = conversion.ab

\* RawReadCmd and RawWriteCmd were converted to the current spec's enum and
\* compare Less before and after.
C35_Witness ==
  /\ conversion.op = "try_from"
  /\ conversion.a = "RawReadCmd" /\ conversion.b = "RawWriteCmd"
  /\ conversion.ra = ConvertedTo("RawReadCmd")
  /\ conversion.rb = ConvertedTo("RawWriteCmd")
  /\ conversion.ab = "Less" /\ conversion.images = "Less"

====
